---------------------------- MODULE Spec2Model ----------------------------
(***************************************************************************)
(* A model of the rust-nebula client library.                              *)
(*                                                                         *)
(*   Part 1  SingleConnSessionConf: the round-robin host cursor            *)
(*           (graph/single_conn_session/single_conn_session_manager.rs).   *)
(*   Part 2  GraphConnection / GraphClient authenticate, GraphSession and  *)
(*           SingleConnSession: the response policy of query and the       *)
(*           close_required flag (graph/client.rs, graph/connection.rs,    *)
(*           graph/single_conn_session/mod.rs, graph/query.rs).            *)
(*   Part 3  SingleConnSessionManager: get_session and the pool adapter    *)
(*           (impl bb8::ManageConnection).                                 *)
(*                                                                         *)
(* Three specifications share the variables; each one pins the variables   *)
(* of the parts it does not exercise:                                      *)
(*   SpecSeq   get_next_addr, calls never overlapping;                     *)
(*   SpecAddr  get_next_addr, calls of several threads interleaved at      *)
(*             the granularity of the individual atomic operations;        *)
(*   Spec      sessions, authenticate, get_session and the pool.           *)
(***************************************************************************)
EXTENDS Integers, Sequences, FiniteSets, TLC

VARIABLES
    host_addrs,   \* SingleConnSessionConf.host_addrs: a sequence of hosts
    host_idx,     \* SingleConnSessionConf.host_idx: the AtomicUsize cursor
    pc,           \* per thread: the line of get_next_addr it is about to run
    host,         \* per thread: the local `host` of get_next_addr
    ncalls,       \* per thread: get_next_addr calls started so far
    returned,     \* history: the calls that returned, in order of return
    space,        \* SingleConnSessionConf.space: Option<String>
    sessions,     \* the GraphSession / SingleConnSession objects created so far
    last,         \* the most recent operation: its input, result and RPCs
    pending,      \* the query futures that hold a session's &mut borrow
    trace,        \* calls made, requests sent and responses consumed, in order
    clone,        \* a clone of the SingleConnSessionConf, once one is made
    meta_cache,   \* MetaClient.meta_cache
    meta_last,    \* the most recent MetaClient operation
    connection_map, \* StorageClient.connection_map: leader -> connection
    conn_log,     \* history: the address of every storage connection opened
    storage_last, \* the most recent StorageClient operation
    data_in,      \* the DataSet a DataSetWrapper is built from
    data_last,    \* the most recent DataSetWrapper operation
    value_last    \* the most recent ValueWrapper operation

threadVars == <<pc, host, ncalls, returned>>

wireVars == <<pending, trace>>

cloneVars == <<clone>>

metaVars == <<meta_cache, meta_last>>

storageVars == <<connection_map, conn_log, storage_last>>

dataVars == <<data_in, data_last, value_last>>

\* The variables of the later parts, which the operations of Parts 1 to 3
\* leave alone.
extVars == <<wireVars, cloneVars, metaVars, storageVars, dataVars>>

vars == <<host_addrs, host_idx, pc, host, ncalls, returned, space, sessions, last,
          extVars>>

(***************************************************************************)
(* Bounds of the model.                                                    *)
(***************************************************************************)
MaxHosts == 3          \* longest host list drawn
MaxThreads == 2        \* threads calling get_next_addr concurrently
MaxCallsPerThread == 2 \* calls each thread makes in SpecAddr
MaxSeqCalls == 7       \* calls made in SpecSeq
MaxSessions == 1       \* sessions created in Spec

\* HostAddress { host, port }.  The k-th host of a sampled list is
\* 127.0.0.1:(9668 + k), so the first is the 127.0.0.1:9669 of the examples.
HostAddress(k) == [host |-> "127.0.0.1", port |-> 9668 + k]
NoHost == [host |-> "", port |-> 0]
Threads == 1..MaxThreads

\* The host lists sampled: 1 to MaxHosts distinct hosts.
HostLists == {[k \in 1..n |-> HostAddress(k)] : n \in 1..MaxHosts}

(***************************************************************************)
(* Part 1.  SingleConnSessionConf::get_next_addr, one atomic operation at  *)
(* a time.  Vec indices are 0-based in the source and sequences 1-based    *)
(* here, so host_addrs[i] of the source is host_addrs[i + 1].              *)
(*                                                                         *)
(*   L93  if self.host_idx.load(Relaxed) >= self.host_addrs.len() {       *)
(*   L94      self.host_idx.store(0, Relaxed) }                            *)
(*   L96  let host = self.host_addrs[self.host_idx.load(Relaxed)].clone(); *)
(*   L97  self.host_idx.fetch_add(1, Relaxed);                             *)
(*   L98  host                                                             *)
(***************************************************************************)

\* SingleConnSessionConf::new: the cursor starts at 0.
ConfNew(H) ==
    /\ host_addrs = H
    /\ host_idx = 0
    /\ pc = [t \in Threads |-> "idle"]
    /\ host = [t \in Threads |-> [idx |-> 0, addr |-> NoHost]]
    /\ ncalls = [t \in Threads |-> 0]
    /\ returned = <<>>

\* A thread enters get_next_addr.
Call(t) ==
    /\ pc[t] = "idle"
    /\ pc' = [pc EXCEPT ![t] = "L93"]
    /\ ncalls' = [ncalls EXCEPT ![t] = @ + 1]
    /\ UNCHANGED <<host_addrs, host_idx, host, returned, space, sessions, last, extVars>>

\* Line 93: the comparison of the loaded cursor with host_addrs.len().
CursorPastEndMutant(idx, H) == idx > Len(H)

CursorPastEnd(idx, H) == idx >= Len(H)

\* Line 93: the load and the comparison.
LoadCmp(t) ==
    /\ pc[t] = "L93"
    /\ pc' = [pc EXCEPT ![t] = IF CursorPastEnd(host_idx, host_addrs) THEN "L94" ELSE "L96"]
    /\ UNCHANGED <<host_addrs, host_idx, host, ncalls, returned, space, sessions, last, extVars>>

\* Line 94: the store of 0.
StoreZero(t) ==
    /\ pc[t] = "L94"
    /\ host_idx' = 0
    /\ pc' = [pc EXCEPT ![t] = "L96"]
    /\ UNCHANGED <<host_addrs, host, ncalls, returned, space, sessions, last, extVars>>

\* Line 96: the second load and the indexing of host_addrs; an index that is
\* not smaller than the length panics (Vec's Index implementation).
LoadIndex(t) ==
    /\ pc[t] = "L96"
    /\ IF host_idx < Len(host_addrs)
         THEN /\ host' = [host EXCEPT ![t] = [idx |-> host_idx,
                                               addr |-> host_addrs[host_idx + 1]]]
              /\ pc' = [pc EXCEPT ![t] = "L97"]
         ELSE /\ host' = [host EXCEPT ![t] = [idx |-> host_idx, addr |-> NoHost]]
              /\ pc' = [pc EXCEPT ![t] = "panicked"]
    /\ UNCHANGED <<host_addrs, host_idx, ncalls, returned, space, sessions, last, extVars>>

\* Line 97: fetch_add(1), the one read-modify-write of the function.
FetchAdd(t) ==
    /\ pc[t] = "L97"
    /\ host_idx' = host_idx + 1
    /\ pc' = [pc EXCEPT ![t] = "L98"]
    /\ UNCHANGED <<host_addrs, host, ncalls, returned, space, sessions, last, extVars>>

\* Line 98: the call returns `host`.
Return(t) ==
    /\ pc[t] = "L98"
    /\ returned' = Append(returned, [thread |-> t, idx |-> host[t].idx,
                                    addr |-> host[t].addr])
    /\ pc' = [pc EXCEPT ![t] = "idle"]
    /\ UNCHANGED <<host_addrs, host_idx, host, ncalls, space, sessions, last, extVars>>

Step(t) == LoadCmp(t) \/ StoreZero(t) \/ LoadIndex(t) \/ FetchAdd(t) \/ Return(t)

Quiescent == \A t \in Threads : pc[t] \in {"idle", "panicked"}

\* get_next_addr run from entry to return with no other call interleaved: what
\* a caller that is alone on the configuration gets, and the cursor it leaves.
get_next_addr(H, idx) ==
    LET i == IF CursorPastEnd(idx, H) THEN 0 ELSE idx
    IN  [addr |-> H[i + 1], host_idx |-> i + 1]

(***************************************************************************)
(* Part 2.  Values exchanged with the graph service.                       *)
(* Option<T> is a sequence of length at most one.                          *)
(***************************************************************************)
None == <<>>
Some(v) == <<v>>
IsSome(o) == o # <<>>
Unwrap(o) == o[1]

Ok(v) == [tag |-> "Ok", value |-> v]
Err(e) == [tag |-> "Err", error |-> e]

\* common::types::ErrorCode: the values the client distinguishes, one more
\* error code the execute policy treats as a statement error, and the code
\* of a refused login.
ErrorCodes == {"SUCCEEDED", "E_PARTIAL_SUCCEEDED", "E_DISCONNECTED",
               "E_SESSION_INVALID", "E_SESSION_TIMEOUT"}
AuthErrorCodes == {"SUCCEEDED", "E_BAD_USERNAME_PASSWORD"}

\* Byte strings sent as error_msg: "hi", and one byte that is not UTF-8.
MsgSamples == {<<104, 105>>, <<255>>}
OptMsgs == {None} \cup {Some(m) : m \in MsgSamples}

\* String::from_utf8_lossy on the sampled bytes: an ASCII byte is its own
\* code point, and 0xFF, which starts no UTF-8 sequence, becomes U+FFFD.
from_utf8_lossy(bytes) ==
    [i \in 1..Len(bytes) |-> IF bytes[i] < 128 THEN bytes[i] ELSE 65533]

\* The str "Unknown" and "Missing session_id", as code points.
StrUnknown == <<85, 110, 107, 110, 111, 119, 110>>
StrMissingSessionId == <<77, 105, 115, 115, 105, 110, 103, 32, 115, 101, 115,
                         115, 105, 111, 110, 95, 105, 100>>

\* A failed RPC: the generated error enums (ExecuteError, AuthenticateError,
\* ExecuteJsonError) have the variants ThriftError(anyhow::Error) and
\* ApplicationException; `io` is what downcast_ref::<std::io::Error>() finds
\* in a ThriftError, as the ErrorKind.
RpcErrors ==
    {[variant |-> "ThriftError", io |-> k] :
        k \in {Some("BrokenPipe"), Some("ConnectionReset"), None}}
    \cup {[variant |-> "ApplicationException", io |-> None]}

\* ExecutionResponse: error_code, error_msg and data (abstracted to whether
\* it is absent, decodes into the requested records, or does not).  Every
\* error code is sampled, two of them with a message.
ExecutionResponses ==
    {[error_code |-> "SUCCEEDED", error_msg |-> None, data |-> d] :
        d \in {"none", "good", "bad"}}
    \cup {[error_code |-> c, error_msg |-> None, data |-> "none"] :
        c \in {"E_SESSION_INVALID", "E_DISCONNECTED"}}
    \cup {[error_code |-> c, error_msg |-> Some(<<104, 105>>), data |-> "none"] :
        c \in {"E_SESSION_TIMEOUT", "E_PARTIAL_SUCCEEDED"}}

\* What awaiting service.execute(session_id, stmt) yields.
ExecuteOutcomes ==
    {[ok |-> TRUE, resp |-> r] : r \in ExecutionResponses}
    \cup {[ok |-> FALSE, err |-> e] : e \in RpcErrors}

\* What awaiting service.executeJson(session_id, stmt) yields.
ExecuteJsonOutcomes ==
    {[ok |-> TRUE, resp |-> <<123, 125>>]}
    \cup {[ok |-> FALSE, err |-> e] : e \in RpcErrors}

\* AuthResponse: error_code, error_msg, session_id, where id is the session
\* id the server issues.  A refusal is sampled with every message and with
\* or without a session id, a success with or without a session id.
AuthResponses(id) ==
    {[error_code |-> "SUCCEEDED", error_msg |-> None, session_id |-> i] :
        i \in {None, Some(id)}}
    \cup {[error_code |-> c, error_msg |-> m, session_id |-> i] :
        c \in AuthErrorCodes \ {"SUCCEEDED"}, m \in OptMsgs, i \in {None, Some(id)}}

\* What awaiting service.authenticate(username, password) yields.
AuthOutcomes(id) ==
    {[ok |-> TRUE, resp |-> r] : r \in AuthResponses(id)}
    \cup {[ok |-> FALSE, err |-> e] :
            e \in {[variant |-> "ThriftError", io |-> Some("ConnectionReset")]}}

\* What awaiting service.signout(session_id) yields.
SignoutOutcomes ==
    {[ok |-> TRUE]} \cup {[ok |-> FALSE, err |-> e] :
            e \in {[variant |-> "ThriftError", io |-> Some("BrokenPipe")]}}

\* What AsyncTransport::with_tokio_tcp_connect yields.
TransportOutcomes ==
    {[ok |-> TRUE], [ok |-> FALSE, err |-> "ConnectionRefused"]}

(***************************************************************************)
(* Part 2.  authenticate.                                                  *)
(***************************************************************************)
ApplicationException(type, message) ==
    [variant |-> "ApplicationException", type |-> type, message |-> message]

\* The checks both authenticate functions make on the AuthResponse
\* (connection.rs 55-69; client.rs 103-117 is the same text).
AuthSessionIdNoCodeCheck(o) ==
    IF ~o.ok THEN Err(o.err)
    ELSE IF ~IsSome(o.resp.session_id)
         THEN Err(ApplicationException("InternalError", StrMissingSessionId))
         ELSE Ok(Unwrap(o.resp.session_id))

\* GraphConnection::authenticate: the session id, or an AuthenticateError.
GraphConnection_authenticate(o) ==
    IF ~o.ok THEN Err(o.err)
    ELSE IF o.resp.error_code # "SUCCEEDED"
         THEN Err(ApplicationException("Unknown",
                    IF IsSome(o.resp.error_msg)
                        THEN from_utf8_lossy(Unwrap(o.resp.error_msg))
                        ELSE StrUnknown))
    ELSE IF ~IsSome(o.resp.session_id)
         THEN Err(ApplicationException("InternalError", StrMissingSessionId))
         ELSE Ok(Unwrap(o.resp.session_id))

\* GraphSession::new and SingleConnSession::new.
GraphSession_new(session_id) ==
    [kind |-> "GraphSession", session_id |-> session_id, close_required |-> FALSE]

SingleConnSession_new(session_id) ==
    [kind |-> "SingleConnSession", session_id |-> session_id, close_required |-> FALSE]

\* GraphClient::authenticate: a GraphSession, or an AuthenticateError.
GraphClient_authenticate(o) ==
    IF ~o.ok THEN Err(o.err)
    ELSE IF o.resp.error_code # "SUCCEEDED"
         THEN Err(ApplicationException("Unknown",
                    IF IsSome(o.resp.error_msg)
                        THEN from_utf8_lossy(Unwrap(o.resp.error_msg))
                        ELSE StrUnknown))
    ELSE IF ~IsSome(o.resp.session_id)
         THEN Err(ApplicationException("InternalError", StrMissingSessionId))
         ELSE Ok(GraphSession_new(Unwrap(o.resp.session_id)))

(***************************************************************************)
(* Part 2.  The response policy of query, and the methods built on it.     *)
(* Each operator takes the session object and what the RPC yielded, and    *)
(* gives the session object afterwards and the value returned.             *)
(***************************************************************************)
\* err.downcast_ref::<IoError>() is Some(io_err) with kind BrokenPipe.
IsBrokenPipe(err) == IsSome(err.io) /\ Unwrap(err.io) = "BrokenPipe"

\* GraphQueryOutput::new: the response with its data taken out and wrapped.
GraphQueryOutput_new(resp) ==
    [resp |-> [error_code |-> resp.error_code, error_msg |-> resp.error_msg],
     data_set |-> resp.data]

ResponseError(resp) ==
    [kind |-> "ResponseError", code |-> resp.error_code, msg |-> resp.error_msg]

ExecuteError(err) == [kind |-> "ExecuteError", inner |-> err]

\* impl From<GraphQueryError> for SingleConnSessionError.
SingleConnSessionError_from(e) == [kind |-> "GraphQueryError", inner |-> e]

\* impl GraphQuery for GraphSession: query.
GraphSession_query(self, o) ==
    IF ~o.ok
    THEN IF o.err.variant = "ThriftError"
         THEN [session |-> [self EXCEPT !.close_required =
                                IF IsBrokenPipe(o.err) THEN TRUE ELSE @],
               result |-> Err(ExecuteError(o.err))]
         ELSE [session |-> self, result |-> Err(ExecuteError(o.err))]
    ELSE CASE o.resp.error_code = "SUCCEEDED" ->
                [session |-> self, result |-> Ok(GraphQueryOutput_new(o.resp))]
           [] o.resp.error_code \in {"E_SESSION_INVALID", "E_SESSION_TIMEOUT"} ->
                [session |-> [self EXCEPT !.close_required = TRUE],
                 result |-> Err(ResponseError(o.resp))]
           [] OTHER ->
                [session |-> self, result |-> Err(ResponseError(o.resp))]

\* SingleConnSession::query, the ThriftError arm of the first match
\* (mod.rs 114-122): what becomes of the session.
SingleConnSession_on_thrift_errorAnyIo(self, err) ==
    [self EXCEPT !.close_required = IF IsSome(err.io) THEN TRUE ELSE @]

SingleConnSession_on_thrift_errorIgnored(self, err) == self

SingleConnSession_on_thrift_error(self, err) ==
    [self EXCEPT !.close_required = IF IsBrokenPipe(err) THEN TRUE ELSE @]

\* SingleConnSession::query, the match on res.error_code (mod.rs 127-136):
\* what becomes of the session.
SingleConnSession_on_error_codeOnlyInvalid(self, code) ==
    CASE code = "SUCCEEDED" -> self
      [] code \in {"E_SESSION_INVALID"} -> [self EXCEPT !.close_required = TRUE]
      [] OTHER -> self

SingleConnSession_on_error_codeResets(self, code) ==
    CASE code = "SUCCEEDED" -> [self EXCEPT !.close_required = FALSE]
      [] code \in {"E_SESSION_INVALID", "E_SESSION_TIMEOUT"} ->
            [self EXCEPT !.close_required = TRUE]
      [] OTHER -> self

SingleConnSession_on_error_codeAnyError(self, code) ==
    CASE code = "SUCCEEDED" -> self
      [] code \in {"E_SESSION_INVALID", "E_SESSION_TIMEOUT"} ->
            [self EXCEPT !.close_required = TRUE]
      [] OTHER -> [self EXCEPT !.close_required = TRUE]

SingleConnSession_on_error_code(self, code) ==
    CASE code = "SUCCEEDED" -> self
      [] code \in {"E_SESSION_INVALID", "E_SESSION_TIMEOUT"} ->
            [self EXCEPT !.close_required = TRUE]
      [] OTHER -> self

\* impl GraphQuery for SingleConnSession: query.  The errors are converted
\* into SingleConnSessionError by `.into()`.
SingleConnSession_query(self, o) ==
    IF ~o.ok
    THEN IF o.err.variant = "ThriftError"
         THEN [session |-> SingleConnSession_on_thrift_error(self, o.err),
               result |-> Err(SingleConnSessionError_from(ExecuteError(o.err)))]
         ELSE [session |-> self,
               result |-> Err(SingleConnSessionError_from(ExecuteError(o.err)))]
    ELSE [session |-> SingleConnSession_on_error_code(self, o.resp.error_code),
          result |-> IF o.resp.error_code = "SUCCEEDED"
                       THEN Ok(GraphQueryOutput_new(o.resp))
                       ELSE Err(SingleConnSessionError_from(ResponseError(o.resp)))]

\* The dispatch of the trait method on the implementing type.
query(self, o) ==
    IF self.kind = "GraphSession" THEN GraphSession_query(self, o)
                                  ELSE SingleConnSession_query(self, o)

\* GraphQuery::execute: `let _ = self.query(stmt).await?; Ok(())`.
execute(self, o) ==
    LET q == query(self, o)
    IN  IF q.result.tag = "Err" THEN q
        ELSE [session |-> q.session, result |-> Ok("unit")]

\* DataSetWrapper proxy scan::<D>() on a GraphQueryOutput, then
\* map_err(GraphQueryError::DataDeserializeError).
scan(output) ==
    CASE output.data_set = "none" -> Err([kind |-> "DataDeserializeError",
                                          inner |-> "UnexistedDataSetError"])
      [] output.data_set = "bad" -> Err([kind |-> "DataDeserializeError",
                                         inner |-> "DataDeserializeError"])
      [] OTHER -> Ok("records")

\* GraphQuery::show_hosts and show_spaces: query, then scan.
show_hosts(self, o) ==
    LET tmp == query(self, o)
    IN  IF tmp.result.tag = "Err" THEN tmp
        ELSE [session |-> tmp.session, result |-> scan(tmp.result.value)]

show_spaces(self, o) ==
    LET tmp == query(self, o)
    IN  IF tmp.result.tag = "Err" THEN tmp
        ELSE [session |-> tmp.session, result |-> scan(tmp.result.value)]

\* GraphSession::execute_json and SingleConnSession::execute_json.
GraphSession_execute_json(self, o) ==
    IF o.ok THEN [session |-> self, result |-> Ok(o.resp)]
    ELSE IF o.err.variant = "ThriftError"
         THEN [session |-> [self EXCEPT !.close_required =
                                IF IsBrokenPipe(o.err) THEN TRUE ELSE @],
               result |-> Err(o.err)]
         ELSE [session |-> self, result |-> Err(o.err)]

SingleConnSession_execute_jsonAssigns(self, o) ==
    IF o.ok THEN [session |-> self, result |-> Ok(o.resp)]
    ELSE IF o.err.variant = "ThriftError"
         THEN [session |-> [self EXCEPT !.close_required = IsBrokenPipe(o.err)],
               result |-> Err(o.err)]
         ELSE [session |-> self, result |-> Err(o.err)]

SingleConnSession_execute_json(self, o) ==
    IF o.ok THEN [session |-> self, result |-> Ok(o.resp)]
    ELSE IF o.err.variant = "ThriftError"
         THEN [session |-> [self EXCEPT !.close_required =
                                IF IsBrokenPipe(o.err) THEN TRUE ELSE @],
               result |-> Err(o.err)]
         ELSE [session |-> self, result |-> Err(o.err)]

execute_json(self, o) ==
    IF self.kind = "GraphSession" THEN GraphSession_execute_json(self, o)
                                  ELSE SingleConnSession_execute_json(self, o)

\* GraphSession::is_close_required and SingleConnSession::is_close_required.
is_close_required(self) == self.close_required

(***************************************************************************)
(* Part 3.  SingleConnSessionManager.                                      *)
(***************************************************************************)
\* format!("Use {};", space)
UseStmt(sp) == <<"Use ", sp, ";">>

get_sessionAuthenticatesUnconnected(H, idx, sp, in) ==
    LET sel == get_next_addr(H, idx)
        base == [host_idx |-> sel.host_idx, addr |-> sel.addr]
    IN  IF ~in.tr.ok
        THEN base @@ [result |-> Err([kind |-> "TransportBuildError",
                                      inner |-> in.tr.err]),
                      rpcs |-> <<[rpc |-> "authenticate"]>>]
        ELSE LET auth == GraphConnection_authenticate(Unwrap(in.auth))
             IN  IF auth.tag = "Err"
                 THEN base @@ [result |-> Err([kind |-> "AuthenticateError",
                                               inner |-> auth.error]),
                               rpcs |-> <<[rpc |-> "authenticate"]>>]
                 ELSE LET session == SingleConnSession_new(auth.value)
                      IN  IF IsSome(sp)
                          THEN LET e == execute(session, Unwrap(in.use))
                                   sent == <<[rpc |-> "authenticate"],
                                             [rpc |-> "execute",
                                              session_id |-> session.session_id,
                                              stmt |-> UseStmt(Unwrap(sp))]>>
                               IN  IF e.result.tag = "Err"
                                   THEN base @@ [result |-> Err(e.result.error),
                                                 rpcs |-> sent]
                                   ELSE base @@ [result |-> Ok(e.session),
                                                 rpcs |-> sent]
                          ELSE base @@ [result |-> Ok(session),
                                        rpcs |-> <<[rpc |-> "authenticate"]>>]

get_sessionIgnoresUseFailure(H, idx, sp, in) ==
    LET sel == get_next_addr(H, idx)
        base == [host_idx |-> sel.host_idx, addr |-> sel.addr]
    IN  IF ~in.tr.ok
        THEN base @@ [result |-> Err([kind |-> "TransportBuildError",
                                      inner |-> in.tr.err]),
                      rpcs |-> <<>>]
        ELSE LET auth == GraphConnection_authenticate(Unwrap(in.auth))
             IN  IF auth.tag = "Err"
                 THEN base @@ [result |-> Err([kind |-> "AuthenticateError",
                                               inner |-> auth.error]),
                               rpcs |-> <<[rpc |-> "authenticate"]>>]
                 ELSE LET session == SingleConnSession_new(auth.value)
                      IN  IF IsSome(sp)
                          THEN base @@ [result |-> Ok(execute(session, Unwrap(in.use)).session),
                                        rpcs |-> <<[rpc |-> "authenticate"],
                                                   [rpc |-> "execute",
                                                    session_id |-> session.session_id,
                                                    stmt |-> UseStmt(Unwrap(sp))]>>]
                          ELSE base @@ [result |-> Ok(session),
                                        rpcs |-> <<[rpc |-> "authenticate"]>>]

\* A get_session that moves the cursor only when it returns a session.
get_sessionAdvancesOnSuccess(H, idx, sp, in) ==
    LET sel == get_next_addr(H, idx)
        failed == [host_idx |-> idx, addr |-> sel.addr]
        base == [host_idx |-> sel.host_idx, addr |-> sel.addr]
    IN  IF ~in.tr.ok
        THEN failed @@ [result |-> Err([kind |-> "TransportBuildError",
                                        inner |-> in.tr.err]),
                        rpcs |-> <<>>]
        ELSE LET auth == GraphConnection_authenticate(Unwrap(in.auth))
             IN  IF auth.tag = "Err"
                 THEN failed @@ [result |-> Err([kind |-> "AuthenticateError",
                                                 inner |-> auth.error]),
                                 rpcs |-> <<[rpc |-> "authenticate"]>>]
                 ELSE LET session == SingleConnSession_new(auth.value)
                      IN  IF IsSome(sp)
                          THEN LET e == execute(session, Unwrap(in.use))
                                   sent == <<[rpc |-> "authenticate"],
                                             [rpc |-> "execute",
                                              session_id |-> session.session_id,
                                              stmt |-> UseStmt(Unwrap(sp))]>>
                               IN  IF e.result.tag = "Err"
                                   THEN failed @@ [result |-> Err(e.result.error),
                                                   rpcs |-> sent]
                                   ELSE base @@ [result |-> Ok(e.session),
                                                 rpcs |-> sent]
                          ELSE base @@ [result |-> Ok(session),
                                        rpcs |-> <<[rpc |-> "authenticate"]>>]

\* SingleConnSessionManager::get_session.  in.tr, in.auth and in.use are
\* what the transport construction, the authenticate RPC and the execute RPC
\* of the USE statement yield (None for an RPC that is never issued).
\* Gives the result, the cursor afterwards, the address connected to and
\* the RPCs issued.
get_session(H, idx, sp, in) ==
    LET sel == get_next_addr(H, idx)
        base == [host_idx |-> sel.host_idx, addr |-> sel.addr]
    IN  IF ~in.tr.ok
        THEN base @@ [result |-> Err([kind |-> "TransportBuildError",
                                      inner |-> in.tr.err]),
                      rpcs |-> <<>>]
        ELSE LET auth == GraphConnection_authenticate(Unwrap(in.auth))
             IN  IF auth.tag = "Err"
                 THEN base @@ [result |-> Err([kind |-> "AuthenticateError",
                                               inner |-> auth.error]),
                               rpcs |-> <<[rpc |-> "authenticate"]>>]
                 ELSE LET session == SingleConnSession_new(auth.value)
                      IN  IF IsSome(sp)
                          THEN LET e == execute(session, Unwrap(in.use))
                                   sent == <<[rpc |-> "authenticate"],
                                             [rpc |-> "execute",
                                              session_id |-> session.session_id,
                                              stmt |-> UseStmt(Unwrap(sp))]>>
                               IN  IF e.result.tag = "Err"
                                   THEN base @@ [result |-> Err(e.result.error),
                                                 rpcs |-> sent]
                                   ELSE base @@ [result |-> Ok(e.session),
                                                 rpcs |-> sent]
                          ELSE base @@ [result |-> Ok(session),
                                        rpcs |-> <<[rpc |-> "authenticate"]>>]

\* impl bb8::ManageConnection for SingleConnSessionManager.
is_valid(conn) == Ok("unit")

has_brokenNever(conn) == FALSE

has_brokenNegated(conn) == ~is_close_required(conn)

has_broken(conn) == is_close_required(conn)

(***************************************************************************)
(* Part 3.  The operations an application and the pool perform.            *)
(*                                                                         *)
(* sessions[s] is the s-th session created: its object and where it is:    *)
(*   "owned"       held by the application (GraphClient::authenticate or   *)
(*                 a direct get_session);                                  *)
(*   "idle"        in the pool;                                            *)
(*   "in_use"      checked out of the pool by an acquirer;                 *)
(*   "dropped"     discarded by the pool;                                  *)
(*   "signed_out"  consumed by signout.                                    *)
(***************************************************************************)
\* What is left of a session object once it has been moved into signout or
\* dropped by the pool: nothing that can be called.
Gone == [kind |-> "gone"]

NoOp == [op |-> "none", sid |-> 0, input |-> None,
         result |-> None, rpcs |-> <<>>, addr |-> NoHost]

SessionIndex == 1..Len(sessions)

\* The server issues a session id of its own choice with every successful
\* login, never one twice: here 11, 12, ... in the order of the sessions.
IssuedId == 10 + Len(sessions) + 1

Usable(s) == sessions[s].where \in {"owned", "in_use"}

ExecuteRpc(self, stmt) ==
    [rpc |-> "execute", session_id |-> self.session_id, stmt |-> stmt]

\* GraphClient::authenticate on a fresh client.
ClientAuthenticate(o) ==
    LET r == GraphClient_authenticate(o)
    IN  /\ r.tag = "Ok" => Len(sessions) < MaxSessions
        /\ sessions' = IF r.tag = "Ok"
                         THEN Append(sessions, [obj |-> r.value, where |-> "owned"])
                         ELSE sessions
        /\ last' = [op |-> "GraphClient::authenticate",
                    sid |-> IF r.tag = "Ok" THEN Len(sessions) + 1 ELSE 0,
                    input |-> o, result |-> r,
                    rpcs |-> <<[rpc |-> "authenticate"]>>, addr |-> NoHost]
        /\ UNCHANGED <<host_addrs, host_idx, threadVars, space, extVars>>

\* The inputs of one get_session call: what the transport construction
\* yields, what the authenticate RPC yields if it is issued, and what the
\* execute RPC of the USE statement yields if it is issued.
GetSessionInputs(sp, id) ==
    {[tr |-> tr, auth |-> None, use |-> None] : tr \in {t \in TransportOutcomes : ~t.ok}}
    \cup {[tr |-> tr, auth |-> Some(ao), use |-> None] :
            tr \in {t \in TransportOutcomes : t.ok},
            ao \in {a \in AuthOutcomes(id) :
                        GraphConnection_authenticate(a).tag = "Err" \/ ~IsSome(sp)}}
    \cup {[tr |-> tr, auth |-> Some(ao), use |-> Some(uo)] :
            tr \in {t \in TransportOutcomes : t.ok},
            ao \in {a \in AuthOutcomes(id) :
                        GraphConnection_authenticate(a).tag = "Ok" /\ IsSome(sp)},
            uo \in ExecuteOutcomes}

\* A call of get_session whose session, if any, goes to `where`.
GetSessionInto(op, where, in) ==
    LET g == get_session(host_addrs, host_idx, space, in)
    IN  /\ g.result.tag = "Ok" => Len(sessions) < MaxSessions
        /\ host_idx' = g.host_idx
        /\ sessions' = IF g.result.tag = "Ok"
                         THEN Append(sessions, [obj |-> g.result.value, where |-> where])
                         ELSE sessions
        /\ last' = [op |-> op,
                    sid |-> IF g.result.tag = "Ok" THEN Len(sessions) + 1 ELSE 0,
                    input |-> in,
                    result |-> g.result, rpcs |-> g.rpcs, addr |-> g.addr]
        /\ UNCHANGED <<host_addrs, threadVars, space, extVars>>

\* The application calls manager.get_session() itself.
GetSession(in) == GetSessionInto("get_session", "owned", in)

\* The pool calls ManageConnection::connect, which delegates to get_session,
\* and adds the new connection to its idle connections.
PoolConnect(in) == GetSessionInto("connect", "idle", in)

\* pool.get(): an idle connection is tested with is_valid and handed out
\* (a connection that fails the test is dropped).
PoolGet(s) ==
    /\ sessions[s].where = "idle"
    /\ sessions' = [sessions EXCEPT ![s] =
                        IF is_valid(sessions[s].obj).tag = "Ok"
                            THEN [obj |-> @.obj, where |-> "in_use"]
                            ELSE [obj |-> Gone, where |-> "dropped"]]
    /\ last' = [op |-> "is_valid", sid |-> s, input |-> None,
                result |-> is_valid(sessions[s].obj),
                rpcs |-> <<>>, addr |-> NoHost]
    /\ UNCHANGED <<host_addrs, host_idx, threadVars, space, extVars>>

\* The acquirer drops its PooledConnection: the pool asks has_broken and
\* either discards the connection or puts it back among the idle ones.
PoolPut(s) ==
    /\ sessions[s].where = "in_use"
    /\ sessions' = [sessions EXCEPT ![s] =
                        IF has_broken(sessions[s].obj)
                            THEN [obj |-> Gone, where |-> "dropped"]
                            ELSE [obj |-> @.obj, where |-> "idle"]]
    /\ last' = [op |-> "has_broken", sid |-> s, input |-> None,
                result |-> has_broken(sessions[s].obj),
                rpcs |-> <<>>, addr |-> NoHost]
    /\ UNCHANGED <<host_addrs, host_idx, threadVars, space, extVars>>

\* A method of the session called with RPC outcome o; r is what the method
\* makes of it.
SessionCall(op, s, o, r, stmt) ==
    /\ Usable(s)
    /\ sessions' = [sessions EXCEPT ![s].obj = r.session]
    /\ last' = [op |-> op, sid |-> s, input |-> o,
                result |-> r.result, rpcs |-> <<ExecuteRpc(sessions[s].obj, stmt)>>,
                addr |-> NoHost]
    /\ UNCHANGED <<host_addrs, host_idx, threadVars, space, extVars>>

Query(s, o) == SessionCall("query", s, o, query(sessions[s].obj, o), "stmt")

Execute(s, o) == SessionCall("execute", s, o, execute(sessions[s].obj, o), "stmt")

ShowHosts(s, o) ==
    SessionCall("show_hosts", s, o, show_hosts(sessions[s].obj, o), "SHOW HOSTS;")

ShowSpaces(s, o) ==
    SessionCall("show_spaces", s, o, show_spaces(sessions[s].obj, o), "SHOW SPACES;")

ExecuteJson(s, o) ==
    /\ Usable(s)
    /\ sessions' = [sessions EXCEPT ![s].obj = execute_json(sessions[s].obj, o).session]
    /\ last' = [op |-> "execute_json", sid |-> s, input |-> o,
                result |-> execute_json(sessions[s].obj, o).result,
                rpcs |-> <<[rpc |-> "executeJson",
                            session_id |-> sessions[s].obj.session_id, stmt |-> "stmt"]>>,
                addr |-> NoHost]
    /\ UNCHANGED <<host_addrs, host_idx, threadVars, space, extVars>>

\* signout(self) consumes the session; only an owned session can be moved.
Signout(s, o) ==
    /\ sessions[s].where = "owned"
    /\ sessions' = [sessions EXCEPT ![s] = [obj |-> Gone, where |-> "signed_out"]]
    /\ last' = [op |-> "signout", sid |-> s, input |-> o,
                result |-> IF o.ok THEN Ok("unit") ELSE Err(o.err),
                rpcs |-> <<[rpc |-> "signout",
                            session_id |-> sessions[s].obj.session_id]>>,
                addr |-> NoHost]
    /\ UNCHANGED <<host_addrs, host_idx, threadVars, space, extVars>>

(***************************************************************************)
(* Spec: sessions, authenticate, get_session and the pool.                 *)
(***************************************************************************)
SpaceSamples == {None, Some("basketballplayer")}

\* MetaCache::new: empty tables and no storage address list.
EmptyMap == [k \in {} |-> k]

MetaCache_new ==
    [space_caches |-> EmptyMap, space_id_names |-> EmptyMap,
     storage_addrs |-> None, storage_leader |-> EmptyMap]

NoMetaOp == [op |-> "none", args |-> <<>>, input |-> None, loads |-> 0,
             result |-> [tag |-> "None"], rpcs |-> <<>>]

\* The state of the later parts before any of their operations: no query in
\* progress, no clone made, a MetaClient as MetaClient::new leaves it.
\* Before any StorageClient, DataSetWrapper or ValueWrapper operation.
NoStorageOp ==
    [op |-> "none", args |-> <<>>, leader_map |-> None, opened |-> <<>>,
     rpcs |-> <<>>, result |-> Ok(<<>>)]

NoDataSet == [column_names |-> <<>>, rows |-> <<>>]

NoDataOp == [op |-> "none", args |-> <<>>, result |-> Ok("unit")]

NoValueOp ==
    [op |-> "none", value |-> None, result |-> Ok("unit"), holds |-> {}, type |-> ""]

ExtInit ==
    /\ pending = {}
    /\ trace = <<>>
    /\ clone = None
    /\ meta_cache = MetaCache_new
    /\ meta_last = NoMetaOp
    /\ connection_map = EmptyMap
    /\ conn_log = <<>>
    /\ storage_last = NoStorageOp
    /\ data_in = NoDataSet
    /\ data_last = NoDataOp
    /\ value_last = NoValueOp

Init ==
    /\ ConfNew(<<HostAddress(1), HostAddress(2)>>)
    /\ space \in SpaceSamples
    /\ sessions = <<>>
    /\ last = NoOp
    /\ ExtInit

Next ==
    \/ \E o \in AuthOutcomes(IssuedId) : ClientAuthenticate(o)
    \/ \E in \in GetSessionInputs(space, IssuedId) : GetSession(in)
    \/ \E in \in GetSessionInputs(space, IssuedId) : PoolConnect(in)
    \/ \E s \in SessionIndex : PoolGet(s)
    \/ \E s \in SessionIndex : PoolPut(s)
    \/ \E s \in SessionIndex, o \in ExecuteOutcomes : Query(s, o)
    \/ \E s \in SessionIndex, o \in ExecuteOutcomes : Execute(s, o)
    \/ \E s \in SessionIndex, o \in ExecuteOutcomes : ShowHosts(s, o)
    \/ \E s \in SessionIndex, o \in ExecuteOutcomes : ShowSpaces(s, o)
    \/ \E s \in SessionIndex, o \in ExecuteJsonOutcomes : ExecuteJson(s, o)
    \/ \E s \in SessionIndex, o \in SignoutOutcomes : Signout(s, o)

Spec == Init /\ [][Next]_vars

(***************************************************************************)
(* SpecSeq: sequential calls.  A call starts only when no other call is    *)
(* in progress (the calls may come from any thread).                       *)
(***************************************************************************)
InitSeq ==
    /\ \E H \in HostLists : ConfNew(H)
    /\ space = None
    /\ sessions = <<>>
    /\ last = NoOp
    /\ ExtInit

CallSeq(t) ==
    /\ \A u \in Threads : pc[u] = "idle"
    /\ Len(returned) < MaxSeqCalls
    /\ Call(t)

NextSeq == \E t \in Threads : CallSeq(t) \/ Step(t)

SpecSeq == InitSeq /\ [][NextSeq]_vars

(***************************************************************************)
(* SpecAddr: concurrent calls.  Any thread may start a call at any time    *)
(* and the atomic operations of the calls interleave freely.               *)
(***************************************************************************)
InitAddr ==
    /\ \E H \in HostLists : ConfNew(H)
    /\ space = None
    /\ sessions = <<>>
    /\ last = NoOp
    /\ ExtInit

CallAny(t) ==
    /\ ncalls[t] < MaxCallsPerThread
    /\ Call(t)

NextAddr == \E t \in Threads : CallAny(t) \/ Step(t)

SpecAddr == InitAddr /\ [][NextAddr]_vars

(***************************************************************************)
(* C1.  Sequential calls, cursor initially 0: the k-th call to             *)
(* get_next_addr returns host_addrs[(k-1) mod |host_addrs|] (0-based), so  *)
(* the first |H| calls return H in order and the (|H|+1)-th returns H[0];  *)
(* no call panics.                                                         *)
(***************************************************************************)
C1_RoundRobinSequential ==
    /\ \A k \in 1..Len(returned) :
          /\ returned[k].idx = (k - 1) % Len(host_addrs)
          /\ returned[k].addr = host_addrs[((k - 1) % Len(host_addrs)) + 1]
    /\ \A t \in Threads : pc[t] # "panicked"

\* The scenario of the specification: hosts [A, B, C], six calls yield
\* A, B, C, A, B, C (the wrap to H[0] at call |H| + 1 has happened).
C1_Witness ==
    /\ Len(host_addrs) = 3
    /\ Len(returned) = 6
    /\ [k \in 1..6 |-> returned[k].addr]
         = <<host_addrs[1], host_addrs[2], host_addrs[3],
             host_addrs[1], host_addrs[2], host_addrs[3]>>

(***************************************************************************)
(* C2.  Two concurrent get_next_addr calls behave as one atomic            *)
(* read-modify-write each: with at least two hosts, two calls              *)
(* made by two threads from the initial cursor return distinct hosts and   *)
(* leave the cursor advanced by two selections.                            *)
(***************************************************************************)
C2_ConcurrentCallsDistinct ==
    ( /\ Quiescent
      /\ Len(returned) = 2
      /\ \A t \in Threads : ncalls[t] <= 1
      /\ Len(host_addrs) >= 2 )
    => /\ returned[1].addr # returned[2].addr
       /\ host_idx = 2

(***************************************************************************)
(* Vocabulary of the claims about query.                                   *)
(***************************************************************************)
\* The step is an operation in `ops`: every operation of Spec writes `last`,
\* so in a step that changes the state last' describes the operation taken.
Performed(ops) == last'.op \in ops

\* The GraphQueryError a query returned: GraphSession returns it as it is,
\* SingleConnSession inside SingleConnSessionError::GraphQueryError.
GraphQueryErrorOf(e) == IF e.kind = "GraphQueryError" THEN e.inner ELSE e

SessionFatalCodes == {"E_SESSION_INVALID", "E_SESSION_TIMEOUT"}

QueryGotResponse == last.op = "query" /\ last.input.ok

(***************************************************************************)
(* C3.  Whenever query receives an execute response whose error_code is    *)
(* E_SESSION_INVALID or E_SESSION_TIMEOUT, it returns ResponseError with   *)
(* that code and message, and is_close_required() is true afterwards,      *)
(* whatever it was before.                                                 *)
(***************************************************************************)
C3_SessionFatalSetsCloseRequired ==
    (QueryGotResponse /\ last.input.resp.error_code \in SessionFatalCodes)
    => /\ last.result.tag = "Err"
       /\ GraphQueryErrorOf(last.result.error).kind = "ResponseError"
       /\ GraphQueryErrorOf(last.result.error).code = last.input.resp.error_code
       /\ GraphQueryErrorOf(last.result.error).msg = last.input.resp.error_msg
       /\ is_close_required(sessions[last.sid].obj)

\* A pooled session whose query received E_SESSION_TIMEOUT with a message.
C3_Witness ==
    /\ QueryGotResponse
    /\ last.input.resp.error_code = "E_SESSION_TIMEOUT"
    /\ IsSome(last.input.resp.error_msg)
    /\ sessions[last.sid].obj.kind = "SingleConnSession"
    /\ sessions[last.sid].obj.close_required

(***************************************************************************)
(* C4.  Whenever query receives an execute response with error_code        *)
(* SUCCEEDED, it returns the wrapped output and close_required is what it  *)
(* was before the call.                                                    *)
(***************************************************************************)
C4_SucceededLeavesCloseRequired ==
    [][ (Performed({"query"}) /\ last'.input.ok
            /\ last'.input.resp.error_code = "SUCCEEDED")
        => /\ last'.result.tag = "Ok"
           /\ last'.result.value.resp.error_code = "SUCCEEDED"
           /\ last'.result.value.data_set = last'.input.resp.data
           /\ sessions'[last'.sid].obj.close_required
                = sessions[last'.sid].obj.close_required ]_vars

\* A successful query on a session whose flag was already set: it stays set.
C4_Witness ==
    /\ QueryGotResponse
    /\ last.input.resp.error_code = "SUCCEEDED"
    /\ sessions[last.sid].obj.kind = "SingleConnSession"
    /\ sessions[last.sid].obj.close_required

(***************************************************************************)
(* C5.  Whenever query receives an execute response whose error_code is    *)
(* neither SUCCEEDED nor E_SESSION_INVALID nor E_SESSION_TIMEOUT, it       *)
(* returns ResponseError(code, msg) and close_required is unchanged.       *)
(***************************************************************************)
C5_StatementErrorLeavesCloseRequired ==
    [][ (Performed({"query"}) /\ last'.input.ok
            /\ last'.input.resp.error_code \notin SessionFatalCodes \cup {"SUCCEEDED"})
        => /\ last'.result.tag = "Err"
           /\ GraphQueryErrorOf(last'.result.error).kind = "ResponseError"
           /\ GraphQueryErrorOf(last'.result.error).code = last'.input.resp.error_code
           /\ GraphQueryErrorOf(last'.result.error).msg = last'.input.resp.error_msg
           /\ sessions'[last'.sid].obj.close_required
                = sessions[last'.sid].obj.close_required ]_vars

\* E_DISCONNECTED answered to a query of a session whose flag is not set.
C5_Witness ==
    /\ QueryGotResponse
    /\ last.input.resp.error_code = "E_DISCONNECTED"
    /\ sessions[last.sid].obj.kind = "SingleConnSession"
    /\ ~sessions[last.sid].obj.close_required

(***************************************************************************)
(* C6.  When the execute RPC of query fails, close_required becomes true   *)
(* if the error is a ThriftError holding an IO error of kind BrokenPipe    *)
(* and is unchanged for every other failure; the error is returned         *)
(* wrapped as ExecuteError.                                                *)
(***************************************************************************)
C6_OnlyBrokenPipeSetsCloseRequired ==
    [][ (Performed({"query"}) /\ ~last'.input.ok)
        => /\ last'.result.tag = "Err"
           /\ GraphQueryErrorOf(last'.result.error).kind = "ExecuteError"
           /\ GraphQueryErrorOf(last'.result.error).inner = last'.input.err
           /\ IF /\ last'.input.err.variant = "ThriftError"
                 /\ last'.input.err.io = Some("BrokenPipe")
                THEN sessions'[last'.sid].obj.close_required
                ELSE sessions'[last'.sid].obj.close_required
                        = sessions[last'.sid].obj.close_required ]_vars

\* An IO error that is not a broken pipe, and the flag still not set.
C6_Witness ==
    /\ last.op = "query"
    /\ ~last.input.ok
    /\ last.input.err.io = Some("ConnectionReset")
    /\ sessions[last.sid].obj.kind = "SingleConnSession"
    /\ ~sessions[last.sid].obj.close_required

(***************************************************************************)
(* C7.  close_required is monotonic: a session is created with             *)
(* close_required = false, and no operation (query, execute, show_hosts,   *)
(* show_spaces, execute_json, nor anything the pool does) takes the flag   *)
(* of a session from true back to false for as long as the session exists. *)
(***************************************************************************)
Exists(s) == sessions[s].obj.kind # "gone"

C7_CloseRequiredMonotonic ==
    [][ /\ \A s \in 1..Len(sessions) :
              (Exists(s) /\ sessions'[s].obj.kind # "gone"
                    /\ sessions[s].obj.close_required)
              => sessions'[s].obj.close_required
        /\ \A s \in (Len(sessions) + 1)..Len(sessions') :
              ~sessions'[s].obj.close_required ]_vars

\* A session whose flag is set has just completed an executeJson call.
C7_Witness ==
    /\ last.op = "execute_json"
    /\ last.input.ok
    /\ sessions[last.sid].obj.close_required

(***************************************************************************)
(* C8.  For every session in every reachable state, has_broken(session)    *)
(* is the session's close_required flag: true after a query on it          *)
(* received E_SESSION_TIMEOUT, false for a freshly connected session.      *)
(***************************************************************************)
C8_HasBrokenIsCloseRequired ==
    /\ \A s \in SessionIndex :
          Exists(s) => (has_broken(sessions[s].obj) <=> sessions[s].obj.close_required)
    /\ (QueryGotResponse /\ last.input.resp.error_code = "E_SESSION_TIMEOUT")
          => has_broken(sessions[last.sid].obj)
    /\ (last.op \in {"connect", "get_session"} /\ last.result.tag = "Ok")
          => ~has_broken(sessions[last.sid].obj)

\* A session checked out of the pool has received E_SESSION_TIMEOUT.
C8_Witness ==
    /\ QueryGotResponse
    /\ last.input.resp.error_code = "E_SESSION_TIMEOUT"
    /\ sessions[last.sid].where = "in_use"
    /\ has_broken(sessions[last.sid].obj)

(***************************************************************************)
(* C9.  In the pool, a session on which a query set close_required is      *)
(* never handed to a later acquirer: when it is returned it is discarded,  *)
(* no idle session has the flag set, and every session an acquirer         *)
(* receives has close_required = false.                                    *)
(***************************************************************************)
C9_BrokenSessionNeverHandedOut ==
    [][ \A s \in 1..Len(sessions') :
          /\ sessions'[s].where = "idle" => ~sessions'[s].obj.close_required
          /\ s <= Len(sessions) =>
               /\ (sessions[s].where = "idle" /\ sessions'[s].where = "in_use")
                     => ~sessions'[s].obj.close_required
               /\ (sessions[s].where = "in_use" /\ sessions'[s].where # "in_use"
                        /\ sessions[s].obj.close_required)
                     => sessions'[s].where = "dropped" ]_vars

\* The pool asked has_broken about a returned session and discarded it.
C9_Witness ==
    /\ last.op = "has_broken"
    /\ last.result = TRUE
    /\ sessions[last.sid].where = "dropped"

(***************************************************************************)
(* C10.  authenticate (GraphConnection's, inside get_session, and          *)
(* GraphClient's) yields a session id exactly when the response has        *)
(* error_code SUCCEEDED and a session_id.  Another code yields an          *)
(* application error (Unknown) with the server's message decoded, or       *)
(* "Unknown" without one; SUCCEEDED without a session_id yields the        *)
(* "Missing session_id" error; a failure creates no session.               *)
(***************************************************************************)
AuthGranted(o) ==
    o.ok /\ o.resp.error_code = "SUCCEEDED" /\ IsSome(o.resp.session_id)

\* What a refused or malformed login must be reported as.
AuthFailureAsClaimed(o, e) ==
    /\ o.resp.error_code # "SUCCEEDED" =>
          /\ e.variant = "ApplicationException" /\ e.type = "Unknown"
          /\ o.resp.error_msg = None => e.message = StrUnknown
          /\ o.resp.error_msg = Some(<<104, 105>>) => e.message = <<104, 105>>
          /\ o.resp.error_msg = Some(<<255>>) => e.message = <<65533>>
    /\ (o.resp.error_code = "SUCCEEDED" /\ ~IsSome(o.resp.session_id)) =>
          /\ e.variant = "ApplicationException" /\ e.type = "InternalError"
          /\ e.message = StrMissingSessionId

C10_AuthenticateSessionIdIffSucceeded ==
    [][ /\ Performed({"GraphClient::authenticate"}) =>
            /\ last'.result.tag = "Ok" <=> AuthGranted(last'.input)
            /\ AuthGranted(last'.input) =>
                  /\ sessions' = Append(sessions, [obj |-> last'.result.value,
                                                   where |-> "owned"])
                  /\ last'.result.value.session_id = Unwrap(last'.input.resp.session_id)
            /\ ~AuthGranted(last'.input) => sessions' = sessions
            /\ (last'.input.ok /\ ~AuthGranted(last'.input)) =>
                  AuthFailureAsClaimed(last'.input, last'.result.error)
        /\ (Performed({"get_session", "connect"}) /\ last'.input.tr.ok) =>
            LET o == Unwrap(last'.input.auth)
            IN  /\ (last'.result.tag = "Err"
                        /\ last'.result.error.kind = "AuthenticateError")
                      <=> ~AuthGranted(o)
                /\ last'.result.tag = "Ok" =>
                      last'.result.value.session_id = Unwrap(o.resp.session_id)
                /\ ~AuthGranted(o) => sessions' = sessions
                /\ (o.ok /\ ~AuthGranted(o)) =>
                      AuthFailureAsClaimed(o, last'.result.error.inner) ]_vars

\* A refusal that carries a session id and a message that is not UTF-8:
\* no session, and the message decoded with the replacement character.
C10_Witness ==
    /\ last.op = "GraphClient::authenticate"
    /\ last.input.ok
    /\ last.input.resp.error_code = "E_BAD_USERNAME_PASSWORD"
    /\ IsSome(last.input.resp.session_id)
    /\ last.input.resp.error_msg = Some(<<255>>)
    /\ last.result.tag = "Err"
    /\ last.result.error.message = <<65533>>
    /\ sessions = <<>>


(***************************************************************************)
(* C11.  get_session and the default space.  With a default space          *)
(* configured, a get_session that returns a session has issued, after the  *)
(* authenticate RPC and as its last RPC, one execute RPC carrying          *)
(* "Use <space>;" on the new session, and that RPC succeeded; if that RPC  *)
(* fails (transport error or a code other than SUCCEEDED) get_session      *)
(* returns the failure as GraphQueryError and creates no session.  With    *)
(* no default space get_session issues no execute RPC at all.              *)
(***************************************************************************)
IsExecuteRpc(m) == m.rpc = "execute"

\* The USE statement is reached: the transport was built and the login granted.
UseReached(in) == in.tr.ok /\ AuthGranted(Unwrap(in.auth))

UseFailed(o) == ~o.ok \/ o.resp.error_code # "SUCCEEDED"

C11_GetSessionUsesDefaultSpace ==
    [][Performed({"get_session", "connect"}) =>
        LET in == last'.input
            r == last'.result
            sent == last'.rpcs
            execs == SelectSeq(sent, IsExecuteRpc)
        IN  /\ ~IsSome(space) => execs = <<>>
            /\ (IsSome(space) /\ r.tag = "Ok") =>
                  /\ Len(sent) = 2
                  /\ sent[1].rpc = "authenticate"
                  /\ sent[2] = [rpc |-> "execute",
                                session_id |-> r.value.session_id,
                                stmt |-> <<"Use ", Unwrap(space), ";">>]
                  /\ UseReached(in)
                  /\ ~UseFailed(Unwrap(in.use))
            /\ (IsSome(space) /\ UseReached(in) /\ UseFailed(Unwrap(in.use))) =>
                  /\ Len(execs) = 1
                  /\ r.tag = "Err"
                  /\ r.error.kind = "GraphQueryError"
                  /\ r.error.inner = (IF Unwrap(in.use).ok
                                        THEN ResponseError(Unwrap(in.use).resp)
                                        ELSE ExecuteError(Unwrap(in.use).err))
                  /\ sessions' = sessions
    ]_vars

\* A get_session with a default space whose USE statement was answered with
\* a code other than SUCCEEDED: it returned that failure.
C11_Witness ==
    /\ last.op = "get_session"
    /\ IsSome(space)
    /\ UseReached(last.input)
    /\ Unwrap(last.input.use).ok
    /\ Unwrap(last.input.use).resp.error_code = "E_DISCONNECTED"
    /\ last.result.tag = "Err"
    /\ sessions = <<>>

(***************************************************************************)
(* Part 4.  A query call step by step.                                     *)
(*                                                                         *)
(* query is `async fn query(&mut self, stmt)`: calling it creates a future *)
(* that holds the exclusive borrow of the session until it returns.  The   *)
(* future sends one execute request (line 107-110), awaits the response    *)
(* (line 111), and every arm of the two matches that follow returns.       *)
(* execute, show_hosts and show_spaces await one query call.               *)
(*                                                                         *)
(* pending holds the futures in progress, trace the calls made, the        *)
(* requests sent and the responses consumed, in the order they happen.     *)
(***************************************************************************)
MaxQueries == 2        \* calls made in SpecWire

StmtSamples == {"stmt1", "stmt2"}

STMT_SHOW_HOSTS == "SHOW HOSTS;"

STMT_SHOW_SPACES == "SHOW SPACES;"

\* The methods of GraphQuery with the statement each one passes to query.
QueryCalls ==
    {[op |-> "query", stmt |-> st] : st \in StmtSamples}
    \cup {[op |-> "execute", stmt |-> "stmt1"],
          [op |-> "show_hosts", stmt |-> STMT_SHOW_HOSTS],
          [op |-> "show_spaces", stmt |-> STMT_SHOW_SPACES]}

\* What the method makes of the outcome of its query's execute RPC.
GraphQuery_method(op, self, o) ==
    CASE op = "query" -> query(self, o)
      [] op = "execute" -> execute(self, o)
      [] op = "show_hosts" -> show_hosts(self, o)
      [] op = "show_spaces" -> show_spaces(self, o)

\* The outcomes of the execute RPC drawn in SpecWire, one of each kind: a
\* success, an error code, a broken pipe and another transport error.
WireOutcomes ==
    {o \in ExecuteOutcomes :
        IF o.ok
        THEN \/ o.resp.error_code = "E_SESSION_TIMEOUT"
             \/ (o.resp.error_code = "SUCCEEDED" /\ o.resp.data = "good")
        ELSE IsSome(o.err.io)}

NumCalls == Cardinality({k \in 1..Len(trace) : trace[k].ev = "call"})

\* `&mut self`: while a future of the session exists the session is
\* mutably borrowed and no other method can be called on it.
BorrowedNever(s) == FALSE

Borrowed(s) == \E c \in pending : c.sid = s

\* Where the future continues once the outcome of the execute RPC has been
\* matched: every arm returns, none loops back to the request.
query_after_awaitRetriesBrokenPipe(o) ==
    IF ~o.ok /\ o.err.variant = "ThriftError" /\ IsBrokenPipe(o.err)
        THEN "L107" ELSE "return"

query_after_await(o) == "return"

Event(ev, c) == [ev |-> ev, sid |-> c.sid, n |-> c.n, stmt |-> c.stmt]

\* The caller calls a method of the session and starts awaiting it.
QueryCall(s, m) ==
    /\ Usable(s)
    /\ ~Borrowed(s)
    /\ NumCalls < MaxQueries
    /\ LET c == [sid |-> s, n |-> NumCalls + 1, op |-> m.op, stmt |-> m.stmt,
                 pc |-> "L107"]
       IN  /\ pending' = pending \cup {c}
           /\ trace' = Append(trace, Event("call", c))
    /\ UNCHANGED <<host_addrs, host_idx, threadVars, space, sessions, last,
                   cloneVars, metaVars, storageVars, dataVars>>

\* Lines 107-110: the execute request goes out on the session's connection.
QuerySend(c) ==
    /\ c.pc = "L107"
    /\ pending' = (pending \ {c}) \cup {[c EXCEPT !.pc = "L111"]}
    /\ trace' = Append(trace, Event("send", c))
    /\ UNCHANGED <<host_addrs, host_idx, threadVars, space, sessions, last,
                   cloneVars, metaVars, storageVars, dataVars>>

\* Line 111 onwards: the response or the error is consumed and matched.
QueryReturn(c, o) ==
    /\ c.pc = "L111"
    /\ LET r == GraphQuery_method(c.op, sessions[c.sid].obj, o)
       IN  /\ sessions' = [sessions EXCEPT ![c.sid].obj = r.session]
           /\ last' = [op |-> c.op, sid |-> c.sid, input |-> o,
                       result |-> r.result,
                       rpcs |-> <<ExecuteRpc(sessions[c.sid].obj, c.stmt)>>,
                       addr |-> NoHost]
    /\ pending' = IF query_after_await(o) = "return"
                    THEN pending \ {c}
                    ELSE (pending \ {c}) \cup {[c EXCEPT !.pc = query_after_await(o)]}
    /\ trace' = Append(trace, Event("recv", c))
    /\ UNCHANGED <<host_addrs, host_idx, threadVars, space, cloneVars, metaVars,
                   storageVars, dataVars>>

InitWire ==
    /\ ConfNew(<<HostAddress(1)>>)
    /\ space = None
    /\ sessions = <<>>
    /\ last = NoOp
    /\ ExtInit

\* The logins of SpecWire are those that yield a session: a login that
\* fails creates no session to call query on.
GrantedAuthOutcomes(id) ==
    {o \in AuthOutcomes(id) : GraphClient_authenticate(o).tag = "Ok"}

GrantedGetSessionInputs(sp, id) ==
    {in \in GetSessionInputs(sp, id) :
        get_session(host_addrs, host_idx, sp, in).result.tag = "Ok"}

NextWire ==
    \/ \E o \in GrantedAuthOutcomes(IssuedId) : ClientAuthenticate(o)
    \/ \E in \in GrantedGetSessionInputs(space, IssuedId) : GetSession(in)
    \/ \E s \in SessionIndex, m \in QueryCalls : QueryCall(s, m)
    \/ \E c \in pending : QuerySend(c)
    \/ \E c \in pending, o \in WireOutcomes : QueryReturn(c, o)

SpecWire == InitWire /\ [][NextWire]_vars

(***************************************************************************)
(* C12.  Within one session at most one execute RPC is in flight at any    *)
(* time and the statements reach the server in the order the caller        *)
(* submitted them: of two calls on the same session, the request of the    *)
(* first is sent and its response or error consumed before the request of  *)
(* the second is sent, and each request carries the statement of its call. *)
(***************************************************************************)
IsEvent(k, ev, s) == trace[k].ev = ev /\ trace[k].sid = s

InFlight(s) ==
    {n \in 1..NumCalls :
        /\ \E k \in 1..Len(trace) : IsEvent(k, "send", s) /\ trace[k].n = n
        /\ ~\E k \in 1..Len(trace) : IsEvent(k, "recv", s) /\ trace[k].n = n}

C12_OneRpcInFlightInSubmissionOrder ==
    \A s \in SessionIndex :
        /\ Cardinality(InFlight(s)) <= 1
        /\ \A i, j \in 1..Len(trace) :
              (i < j /\ IsEvent(i, "call", s) /\ IsEvent(j, "call", s)) =>
                 \A k \in 1..Len(trace) :
                    (IsEvent(k, "send", s) /\ trace[k].n = trace[j].n) =>
                       /\ trace[k].stmt = trace[j].stmt
                       /\ \E a, b \in 1..(k - 1) :
                             /\ a < b
                             /\ IsEvent(a, "send", s) /\ trace[a].n = trace[i].n
                             /\ trace[a].stmt = trace[i].stmt
                             /\ IsEvent(b, "recv", s) /\ trace[b].n = trace[i].n

\* Two calls with different statements on one session, the second sent
\* after the first failed with an error.
C12_Witness ==
    \E s \in SessionIndex :
        /\ Len(trace) = 5
        /\ IsEvent(1, "call", s) /\ IsEvent(2, "send", s) /\ IsEvent(3, "recv", s)
        /\ IsEvent(4, "call", s) /\ IsEvent(5, "send", s)
        /\ trace[1].stmt # trace[4].stmt
        /\ last.result.tag = "Err"
        /\ InFlight(s) = {2}

(***************************************************************************)
(* C13.  No statement is retried: every call of query, execute,            *)
(* show_hosts or show_spaces issues exactly one execute RPC, whatever the  *)
(* outcome: a call never has more than one request sent, and a call that   *)
(* has returned has had exactly one.                                       *)
(***************************************************************************)
SendsOf(n) == {k \in 1..Len(trace) : trace[k].ev = "send" /\ trace[k].n = n}

Returned(n) ==
    /\ \E k \in 1..Len(trace) : trace[k].ev = "recv" /\ trace[k].n = n
    /\ ~\E c \in pending : c.n = n

C13_NoTransparentRetry ==
    \A n \in 1..NumCalls :
        /\ Cardinality(SendsOf(n)) <= 1
        /\ Returned(n) => Cardinality(SendsOf(n)) = 1
        /\ \A k \in 1..Len(trace) :
              (trace[k].ev = "recv" /\ trace[k].n = n) => Returned(n)

\* A show_hosts call that met a broken pipe has returned, after one request.
C13_Witness ==
    /\ last.op = "show_hosts"
    /\ ~last.input.ok
    /\ IsBrokenPipe(last.input.err)
    /\ Returned(NumCalls)
    /\ Cardinality(SendsOf(NumCalls)) = 1

(***************************************************************************)
(* Part 5.  impl Clone for SingleConnSessionConf.                          *)
(*                                                                         *)
(* clone is the clone of the config, once made: its host list, its own     *)
(* cursor, the cursor value the original had when it was cloned (kept for  *)
(* the record) and whether get_next_addr has been called on it yet.        *)
(* The calls are made one after the other.                                 *)
(***************************************************************************)
SingleConnSessionConf_cloneResetsCursor(self) ==
    [host_addrs |-> self.host_addrs, host_idx |-> 0, space |-> self.space]

\* host_idx: AtomicUsize::new(self.host_idx.load(Relaxed)): a new counter
\* holding the value read.
SingleConnSessionConf_clone(self) ==
    [host_addrs |-> self.host_addrs, host_idx |-> self.host_idx, space |-> self.space]

\* get_next_addr on the original.
ConfGetNextAddr ==
    LET g == get_next_addr(host_addrs, host_idx)
    IN  /\ host_idx' = g.host_idx
        /\ last' = [NoOp EXCEPT !.op = "get_next_addr", !.addr = g.addr]
        /\ UNCHANGED <<host_addrs, threadVars, space, sessions, wireVars, cloneVars,
                       metaVars, storageVars, dataVars>>

\* config.clone().
ConfClone ==
    /\ clone = None
    /\ clone' = Some([conf |-> SingleConnSessionConf_clone(
                                  [host_addrs |-> host_addrs, host_idx |-> host_idx,
                                   space |-> space]),
                      cloned_at |-> host_idx, fresh |-> TRUE])
    /\ last' = [NoOp EXCEPT !.op = "clone"]
    /\ UNCHANGED <<host_addrs, host_idx, threadVars, space, sessions, wireVars,
                   metaVars, storageVars, dataVars>>

\* get_next_addr on the clone.
CloneGetNextAddr ==
    /\ IsSome(clone)
    /\ LET c == Unwrap(clone)
           g == get_next_addr(c.conf.host_addrs, c.conf.host_idx)
       IN  /\ clone' = Some([c EXCEPT !.conf.host_idx = g.host_idx, !.fresh = FALSE])
           /\ last' = [NoOp EXCEPT !.op = "clone.get_next_addr", !.addr = g.addr]
    /\ UNCHANGED <<host_addrs, host_idx, threadVars, space, sessions, wireVars,
                   metaVars, storageVars, dataVars>>

InitClone ==
    /\ \E H \in HostLists : ConfNew(H)
    /\ space \in SpaceSamples
    /\ sessions = <<>>
    /\ last = NoOp
    /\ ExtInit

NextClone == ConfGetNextAddr \/ ConfClone \/ CloneGetNextAddr

SpecClone == InitClone /\ [][NextClone]_vars

(***************************************************************************)
(* C14.  Cloning a SingleConnSessionConf copies the current cursor value   *)
(* into an independent counter: the first get_next_addr on the clone       *)
(* returns the host the original would have returned next when it was      *)
(* cloned, and get_next_addr on either object never changes the cursor of  *)
(* the other.                                                              *)
(***************************************************************************)
C14_CloneCopiesCursorByValue ==
    [][/\ Performed({"clone"}) =>
            /\ Unwrap(clone').conf.host_idx = host_idx
            /\ Unwrap(clone').conf.host_addrs = host_addrs
            /\ host_idx' = host_idx
       /\ Performed({"clone.get_next_addr"}) =>
            /\ host_idx' = host_idx
            /\ Unwrap(clone).fresh =>
                  last'.addr = get_next_addr(host_addrs, Unwrap(clone).cloned_at).addr
       /\ Performed({"get_next_addr"}) => clone' = clone
    ]_vars

\* Three hosts, the original cloned after one call and then called again:
\* the clone's first call returns the second host while the original has
\* moved on to the third.
C14_Witness ==
    /\ Len(host_addrs) = 3
    /\ IsSome(clone)
    /\ Unwrap(clone).cloned_at = 1
    /\ ~Unwrap(clone).fresh
    /\ Unwrap(clone).conf.host_idx = 2
    /\ host_idx = 3
    /\ last.op = "clone.get_next_addr"
    /\ last.addr = host_addrs[2]

(***************************************************************************)
(* Part 6.  MetaClient and MetaCache.                                      *)
(*                                                                         *)
(* The HashMaps and the BTreeMap of the cache are functions with a finite  *)
(* domain.  Names (Vec<u8>) are written as strings.                        *)
(***************************************************************************)
contains_key(m, k) == k \in DOMAIN m

\* HashMap::insert: the value of an existing key is replaced.
insert(m, k, v) == [x \in DOMAIN m \cup {k} |-> IF x = k THEN v ELSE m[x]]

\* What the meta server holds.
IdName(k, name) == [id |-> [variant |-> "space_id", value |-> k], name |-> name]

TagItem(id, name, version) ==
    [tag_id |-> id, tag_name |-> name, version |-> version,
     schema |-> [columns |-> version + 1]]

EdgeItem(type, name, version) ==
    [edge_type |-> type, edge_name |-> name, version |-> version,
     schema |-> [columns |-> version]]

\* Three spaces as the server may describe them: partitions with their
\* replicas, the tag versions and the edge versions in the order listed.
SpaceA ==
    [parts |-> (1 :> <<HostAddress(1), HostAddress(2)>>),
     tags |-> <<TagItem(2, "player", 0)>>,
     edges |-> <<>>]

SpaceB ==
    [parts |-> (1 :> <<HostAddress(2), HostAddress(1)>>) @@ (2 :> <<HostAddress(1)>>),
     tags |-> <<TagItem(2, "player", 0), TagItem(2, "player", 1)>>,
     edges |-> <<EdgeItem(5, "follow", 1), EdgeItem(5, "follow", 0)>>]

SpaceC ==
    [parts |-> (1 :> <<HostAddress(1)>>),
     tags |-> <<TagItem(2, "player", 1), TagItem(2, "player", 0), TagItem(3, "team", 0)>>,
     edges |-> <<EdgeItem(5, "follow", 0), EdgeItem(5, "follow", 1)>>]

\* A space one of whose partitions has no replica assigned.
SpaceNoReplica ==
    [parts |-> (1 :> <<HostAddress(1)>>) @@ (2 :> <<>>),
     tags |-> <<TagItem(2, "player", 0)>>,
     edges |-> <<>>]

HostItem(k) == [hostAddr |-> HostAddress(k), status |-> "ONLINE"]

\* The server at different times: the spaces listed, what is known of each
\* (by space id), and the storage hosts.
Server(spaces, of, hosts) == [spaces |-> spaces, of |-> of, hosts |-> hosts]

Servers ==
    { Server(<<>>, EmptyMap, <<HostItem(1)>>),
      Server(<<IdName(1, "s1")>>, (1 :> SpaceA), <<HostItem(1), HostItem(2)>>),
      Server(<<IdName(1, "s1")>>, (1 :> SpaceB), <<HostItem(2), HostItem(1)>>),
      Server(<<IdName(1, "s1"), IdName(2, "s2")>>, (1 :> SpaceC) @@ (2 :> SpaceA),
             <<HostItem(1), HostItem(2)>>),
      Server(<<IdName(2, "s2"), IdName(1, "s1")>>, (1 :> SpaceB) @@ (2 :> SpaceC),
             <<HostItem(2)>>),
      Server(<<IdName(2, "s2")>>, (2 :> SpaceB), <<HostItem(1)>>),
      Server(<<IdName(1, "s1")>>, (1 :> SpaceNoReplica), <<HostItem(1)>>) }

\* `if let ID::space_id(space_id) = space.id { space_id } else { 0 }`
space_id_of(id) == IF id.variant = "space_id" THEN id.value ELSE 0

\* The RPCs a complete load_all issues against the server sv, in order.
RECURSIVE SpaceRpcs(_)
SpaceRpcs(spaces) ==
    IF spaces = <<>> THEN <<>>
    ELSE LET id == space_id_of(Head(spaces).id)
         IN  <<[rpc |-> "getPartsAlloc", space_id |-> id],
               [rpc |-> "listTags", space_id |-> id],
               [rpc |-> "listEdges", space_id |-> id]>> \o SpaceRpcs(Tail(spaces))

LoadRpcs(sv) ==
    <<[rpc |-> "listSpaces", space_id |-> 0]>> \o SpaceRpcs(sv.spaces)
        \o <<[rpc |-> "listHosts", space_id |-> 0]>>

\* The input of one load_all: the server as it is, and which of the RPCs
\* fails (0: none).  Failures are drawn for a server with one space and for
\* one with two.
FailingServers == {sv \in Servers : sv.hosts = <<HostItem(1), HostItem(2)>>}

LoadInputs ==
    {[server |-> sv, fail |-> 0] : sv \in Servers}
    \cup UNION {{[server |-> sv, fail |-> k] : k \in 1..Len(LoadRpcs(sv))} :
                    sv \in FailingServers}

\* MetaClientError
LoadError(e) == [kind |-> "LoadError", inner |-> e]

SpaceNotFoundError(name) == [kind |-> "SpaceNotFoundError", name |-> name]

TagNotFoundError(name) == [kind |-> "TagNotFoundError", name |-> name]

EdgeNotFoundError(name) == [kind |-> "EdgeNotFoundError", name |-> name]

PartNotFoundError(part_id) == [kind |-> "PartNotFoundError", part |-> part_id]

\* Index out of bounds: the thread unwinds.
Panic == [tag |-> "Panic"]

\* load_all, lines 257-264: `for tag in tags`, inserting a tag if its name is
\* new or its version is higher than the cached one.
RECURSIVE load_tag_itemsLastWins(_, _)
load_tag_itemsLastWins(tag_items, tags) ==
    IF tags = <<>> THEN tag_items
    ELSE load_tag_itemsLastWins(insert(tag_items, Head(tags).tag_name, Head(tags)),
                                Tail(tags))

RECURSIVE load_tag_items(_, _)
load_tag_items(tag_items, tags) ==
    IF tags = <<>> THEN tag_items
    ELSE LET tag == Head(tags)
             tag_name == tag.tag_name
         IN  load_tag_items(
                 IF \/ ~contains_key(tag_items, tag_name)
                    \/ tag_items[tag_name].version < tag.version
                     THEN insert(tag_items, tag_name, tag)
                     ELSE tag_items,
                 Tail(tags))

\* load_all, lines 266-273: the same for the edges.
RECURSIVE load_edge_items(_, _)
load_edge_items(edge_items, edges) ==
    IF edges = <<>> THEN edge_items
    ELSE LET edge == Head(edges)
             edge_name == edge.edge_name
         IN  load_edge_items(
                 IF \/ ~contains_key(edge_items, edge_name)
                    \/ edge_items[edge_name].version < edge.version
                     THEN insert(edge_items, edge_name, edge)
                     ELSE edge_items,
                 Tail(edges))

\* load_all, lines 231-277: `for space in spaces`, with the responses of the
\* server sv; gives the two tables built.
RECURSIVE load_spaces(_, _, _)
load_spaces(sv, spaces, acc) ==
    IF spaces = <<>> THEN acc
    ELSE LET id_name == Head(spaces)
             space_id == space_id_of(id_name.id)
             space_cache ==
                 [space_id |-> space_id,
                  space_name |-> id_name.name,
                  tag_items |-> load_tag_items(EmptyMap, sv.of[space_id].tags),
                  edge_items |-> load_edge_items(EmptyMap, sv.of[space_id].edges),
                  parts_alloc |-> sv.of[space_id].parts]
         IN  load_spaces(sv, Tail(spaces),
                 [space_id_names |-> insert(acc.space_id_names, space_id, id_name.name),
                  space_caches |-> insert(acc.space_caches, id_name.name, space_cache)])

\* load_all when the RPC number in.fail returns an error: `?` returns
\* LoadError before anything is assigned to self.meta_cache.
load_all_failedClearsCache(cache, in) ==
    [cache |-> MetaCache_new,
     result |-> Err(LoadError(LoadRpcs(in.server)[in.fail].rpc)),
     rpcs |-> SubSeq(LoadRpcs(in.server), 1, in.fail)]

load_all_failed(cache, in) ==
    [cache |-> cache,
     result |-> Err(LoadError(LoadRpcs(in.server)[in.fail].rpc)),
     rpcs |-> SubSeq(LoadRpcs(in.server), 1, in.fail)]

load_all_completedKeepsOldSpaces(cache, in) ==
    LET sv == in.server
        built == load_spaces(sv, sv.spaces,
                             [space_id_names |-> cache.space_id_names,
                              space_caches |-> cache.space_caches])
        space_caches == built.space_caches
        storage_addrs == [k \in 1..Len(sv.hosts) |-> sv.hosts[k].hostAddr]
        storage_leader ==
            [space_name \in DOMAIN space_caches |->
                [part_id \in DOMAIN space_caches[space_name].parts_alloc |->
                    space_caches[space_name].parts_alloc[part_id][1]]]
    IN  IF \E space_name \in DOMAIN space_caches :
              \E part_id \in DOMAIN space_caches[space_name].parts_alloc :
                 Len(space_caches[space_name].parts_alloc[part_id]) = 0
        THEN [cache |-> cache, result |-> Panic, rpcs |-> LoadRpcs(sv)]
        ELSE [cache |-> [space_id_names |-> built.space_id_names,
                         space_caches |-> space_caches,
                         storage_addrs |-> Some(storage_addrs),
                         storage_leader |-> storage_leader],
              result |-> Ok("unit"),
              rpcs |-> LoadRpcs(sv)]

\* A load_all that merges the new leader table into the old one.
load_all_completedKeepsOldLeaders(cache, in) ==
    LET sv == in.server
        built == load_spaces(sv, sv.spaces,
                             [space_id_names |-> EmptyMap, space_caches |-> EmptyMap])
        space_caches == built.space_caches
        storage_addrs == [k \in 1..Len(sv.hosts) |-> sv.hosts[k].hostAddr]
        storage_leader ==
            [space_name \in DOMAIN space_caches |->
                [part_id \in DOMAIN space_caches[space_name].parts_alloc |->
                    space_caches[space_name].parts_alloc[part_id][1]]]
    IN  IF \E space_name \in DOMAIN space_caches :
              \E part_id \in DOMAIN space_caches[space_name].parts_alloc :
                 Len(space_caches[space_name].parts_alloc[part_id]) = 0
        THEN [cache |-> cache, result |-> Panic, rpcs |-> LoadRpcs(sv)]
        ELSE [cache |-> [space_id_names |-> built.space_id_names,
                         space_caches |-> space_caches,
                         storage_addrs |-> Some(storage_addrs),
                         storage_leader |-> storage_leader @@ cache.storage_leader],
              result |-> Ok("unit"),
              rpcs |-> LoadRpcs(sv)]

\* load_all when every RPC succeeds: lines 283-300.  parts_alloc[part_id][0]
\* panics for a partition with an empty replica list.
load_all_completed(cache, in) ==
    LET sv == in.server
        built == load_spaces(sv, sv.spaces,
                             [space_id_names |-> EmptyMap, space_caches |-> EmptyMap])
        space_caches == built.space_caches
        storage_addrs == [k \in 1..Len(sv.hosts) |-> sv.hosts[k].hostAddr]
        storage_leader ==
            [space_name \in DOMAIN space_caches |->
                [part_id \in DOMAIN space_caches[space_name].parts_alloc |->
                    space_caches[space_name].parts_alloc[part_id][1]]]
    IN  IF \E space_name \in DOMAIN space_caches :
              \E part_id \in DOMAIN space_caches[space_name].parts_alloc :
                 Len(space_caches[space_name].parts_alloc[part_id]) = 0
        THEN [cache |-> cache, result |-> Panic, rpcs |-> LoadRpcs(sv)]
        ELSE [cache |-> [space_id_names |-> built.space_id_names,
                         space_caches |-> space_caches,
                         storage_addrs |-> Some(storage_addrs),
                         storage_leader |-> storage_leader],
              result |-> Ok("unit"),
              rpcs |-> LoadRpcs(sv)]

\* MetaClient::load_all
load_all(cache, in) ==
    IF in.fail # 0 THEN load_all_failed(cache, in) ELSE load_all_completed(cache, in)

\* MetaCache: the probes.
contains_space(cache, space_name) == contains_key(cache.space_caches, space_name)

get_space_cache(cache, space_name) ==
    IF ~contains_space(cache, space_name)
        THEN Err(SpaceNotFoundError(space_name))
        ELSE Ok(cache.space_caches[space_name])

contains_tag(cache, space_name, tag_name) ==
    IF ~contains_space(cache, space_name) THEN FALSE
    ELSE contains_key(cache.space_caches[space_name].tag_items, tag_name)

\* A get_tag_item that reports the tag it was asked for, whichever key is
\* missing.
MetaCache_get_tag_itemReportsTag(cache, space_name, tag_name) ==
    IF ~contains_tag(cache, space_name, tag_name)
        THEN Err(TagNotFoundError(tag_name))
        ELSE Ok(cache.space_caches[space_name].tag_items[tag_name])

MetaCache_get_tag_item(cache, space_name, tag_name) ==
    IF ~contains_space(cache, space_name)
    THEN Err(SpaceNotFoundError(space_name))
    ELSE IF ~contains_key(cache.space_caches[space_name].tag_items, tag_name)
         THEN Err(TagNotFoundError(tag_name))
         ELSE Ok(cache.space_caches[space_name].tag_items[tag_name])

contains_edge(cache, space_name, edge_name) ==
    IF ~contains_space(cache, space_name) THEN FALSE
    ELSE contains_key(cache.space_caches[space_name].edge_items, edge_name)

MetaCache_get_edge_item(cache, space_name, edge_name) ==
    IF ~contains_space(cache, space_name)
    THEN Err(SpaceNotFoundError(space_name))
    ELSE IF ~contains_key(cache.space_caches[space_name].edge_items, edge_name)
         THEN Err(EdgeNotFoundError(edge_name))
         ELSE Ok(cache.space_caches[space_name].edge_items[edge_name])

\* `if <miss> { let _ = self.load_all().await?; }`: the cache afterwards,
\* Ok or the error `?` returns, the RPCs issued and the number of load_all
\* calls made.
load_on_miss(cache, miss, in) ==
    IF miss
        THEN load_all(cache, in) @@ [loads |-> 1]
        ELSE [cache |-> cache, result |-> Ok("unit"), rpcs |-> <<>>, loads |-> 0]

\* The rest of a method after a statement ending in `?`.
AndThen(l, result) == IF l.result.tag = "Ok" THEN [l EXCEPT !.result = result] ELSE l

\* MetaClient: the lookups.
get_all_storage_addrsAlwaysLoads(cache, in) ==
    LET l == load_on_miss(cache, TRUE, in)
    IN  AndThen(l, Ok(Unwrap(l.cache.storage_addrs)))

get_all_storage_addrs(cache, in) ==
    LET l == load_on_miss(cache, ~IsSome(cache.storage_addrs), in)
    IN  AndThen(l, Ok(Unwrap(l.cache.storage_addrs)))

get_space_idNeverLoads(cache, space_name, in) ==
    LET l == load_on_miss(cache, FALSE, in)
        space_cache == get_space_cache(l.cache, space_name)
    IN  AndThen(l, IF space_cache.tag = "Err" THEN space_cache
                   ELSE Ok(space_cache.value.space_id))

get_space_id(cache, space_name, in) ==
    LET l == load_on_miss(cache, ~contains_space(cache, space_name), in)
        space_cache == get_space_cache(l.cache, space_name)
    IN  AndThen(l, IF space_cache.tag = "Err" THEN space_cache
                   ELSE Ok(space_cache.value.space_id))

MetaClient_get_tag_item(cache, space_name, tag_name, in) ==
    LET l == load_on_miss(cache, ~contains_tag(cache, space_name, tag_name), in)
    IN  AndThen(l, MetaCache_get_tag_item(l.cache, space_name, tag_name))

MetaClient_get_edge_item(cache, space_name, edge_name, in) ==
    LET l == load_on_miss(cache, ~contains_edge(cache, space_name, edge_name), in)
    IN  AndThen(l, MetaCache_get_edge_item(l.cache, space_name, edge_name))

get_tag_id(cache, space_name, tag_name, in) ==
    LET tag_item == MetaClient_get_tag_item(cache, space_name, tag_name, in)
    IN  AndThen(tag_item, Ok(tag_item.result.value.tag_id))

get_edge_type(cache, space_name, edge_name, in) ==
    LET edge_item == MetaClient_get_edge_item(cache, space_name, edge_name, in)
    IN  AndThen(edge_item, Ok(edge_item.result.value.edge_type))

get_tag_schema(cache, space_name, tag_name, in) ==
    LET tag_item == MetaClient_get_tag_item(cache, space_name, tag_name, in)
    IN  AndThen(tag_item, Ok(tag_item.result.value.schema))

get_edge_schema(cache, space_name, edge_name, in) ==
    LET edge_item == MetaClient_get_edge_item(cache, space_name, edge_name, in)
    IN  AndThen(edge_item, Ok(edge_item.result.value.schema))

get_part_leaders(cache, space_name, in) ==
    LET l == load_on_miss(cache, ~contains_key(cache.storage_leader, space_name), in)
    IN  AndThen(l, IF ~contains_key(l.cache.storage_leader, space_name)
                       THEN Err(SpaceNotFoundError(space_name))
                       ELSE Ok(l.cache.storage_leader[space_name]))

get_part_leader(cache, space_name, part_id, in) ==
    LET part_leaders == get_part_leaders(cache, space_name, in)
    IN  AndThen(part_leaders,
                IF ~contains_key(part_leaders.result.value, part_id)
                    THEN Err(PartNotFoundError(part_id))
                    ELSE Ok(part_leaders.result.value[part_id]))

get_part_alloc(cache, space_name, in) ==
    LET l == load_on_miss(cache, ~contains_space(cache, space_name), in)
        space_cache == get_space_cache(l.cache, space_name)
    IN  AndThen(l, IF space_cache.tag = "Err" THEN space_cache
                   ELSE Ok(space_cache.value.parts_alloc))

(***************************************************************************)
(* SpecMeta: a MetaClient, created by MetaClient::new, on which the        *)
(* lookups are called one after the other (they take &mut self) while the  *)
(* server changes.                                                         *)
(***************************************************************************)
SpaceNameSamples == {"s1", "s2"}

TagNameSamples == {"player", "team"}

EdgeNameSamples == {"follow"}

PartIdSamples == {1, 2}

\* The input recorded for a call that performs no load_all.
NoLoadInput == [server |-> Server(<<>>, EmptyMap, <<HostItem(1)>>), fail |-> 0]

\* A lookup `op` called with `args`; r is what the method makes of the cache
\* and of the input `in` of its load_all, if it performs one.  A client
\* whose thread panicked is not called again.
MetaCall(op, args, in, r) ==
    /\ meta_last.result.tag # "Panic"
    /\ r.loads = 0 => in = NoLoadInput
    /\ meta_cache' = r.cache
    /\ meta_last' = [op |-> op, args |-> args,
                     input |-> IF r.loads = 0 THEN None ELSE Some(in),
                     loads |-> r.loads, result |-> r.result, rpcs |-> r.rpcs]
    /\ UNCHANGED <<host_addrs, host_idx, threadVars, space, sessions, last, wireVars,
                   cloneVars, storageVars, dataVars>>

GetAllStorageAddrs(in) ==
    MetaCall("get_all_storage_addrs", <<>>, in, get_all_storage_addrs(meta_cache, in))

GetSpaceId(sn, in) ==
    MetaCall("get_space_id", <<sn>>, in, get_space_id(meta_cache, sn, in))

GetTagId(sn, tn, in) ==
    MetaCall("get_tag_id", <<sn, tn>>, in, get_tag_id(meta_cache, sn, tn, in))

GetEdgeType(sn, en, in) ==
    MetaCall("get_edge_type", <<sn, en>>, in, get_edge_type(meta_cache, sn, en, in))

GetTagSchema(sn, tn, in) ==
    MetaCall("get_tag_schema", <<sn, tn>>, in, get_tag_schema(meta_cache, sn, tn, in))

GetEdgeSchema(sn, en, in) ==
    MetaCall("get_edge_schema", <<sn, en>>, in, get_edge_schema(meta_cache, sn, en, in))

GetPartLeader(sn, p, in) ==
    MetaCall("get_part_leader", <<sn, p>>, in, get_part_leader(meta_cache, sn, p, in))

GetPartLeaders(sn, in) ==
    MetaCall("get_part_leaders", <<sn>>, in, get_part_leaders(meta_cache, sn, in))

GetPartAlloc(sn, in) ==
    MetaCall("get_part_alloc", <<sn>>, in, get_part_alloc(meta_cache, sn, in))

InitMeta ==
    /\ ConfNew(<<HostAddress(1)>>)
    /\ space = None
    /\ sessions = <<>>
    /\ last = NoOp
    /\ ExtInit

NextMeta ==
    \/ \E in \in LoadInputs : GetAllStorageAddrs(in)
    \/ \E sn \in SpaceNameSamples, in \in LoadInputs : GetSpaceId(sn, in)
    \/ \E sn \in SpaceNameSamples, tn \in TagNameSamples, in \in LoadInputs :
          GetTagId(sn, tn, in)
    \/ \E sn \in SpaceNameSamples, en \in EdgeNameSamples, in \in LoadInputs :
          GetEdgeType(sn, en, in)
    \/ \E sn \in SpaceNameSamples, tn \in TagNameSamples, in \in LoadInputs :
          GetTagSchema(sn, tn, in)
    \/ \E sn \in SpaceNameSamples, en \in EdgeNameSamples, in \in LoadInputs :
          GetEdgeSchema(sn, en, in)
    \/ \E sn \in SpaceNameSamples, p \in PartIdSamples, in \in LoadInputs :
          GetPartLeader(sn, p, in)
    \/ \E sn \in SpaceNameSamples, in \in LoadInputs : GetPartLeaders(sn, in)
    \/ \E sn \in SpaceNameSamples, in \in LoadInputs : GetPartAlloc(sn, in)

SpecMeta == InitMeta /\ [][NextMeta]_vars

(***************************************************************************)
(* Vocabulary of the claims about the meta client.                         *)
(***************************************************************************)
\* The step is a MetaClient operation in `ops`.
MetaPerformed(ops) == meta_last'.op \in ops

\* The load_all of the latest operation ran to its end.
LoadSucceeded(m) ==
    /\ m.loads = 1
    /\ m.result.tag # "Panic"
    /\ m.result.tag = "Err" => m.result.error.kind # "LoadError"

SpaceOps == {"get_space_id", "get_part_alloc"}

TagOps == {"get_tag_id", "get_tag_schema"}

EdgeOps == {"get_edge_type", "get_edge_schema"}

\* The key a lookup requires is in the cache.
KeyCached(op, args, cache) ==
    CASE op \in SpaceOps -> args[1] \in DOMAIN cache.space_caches
      [] op \in TagOps ->
            /\ args[1] \in DOMAIN cache.space_caches
            /\ args[2] \in DOMAIN cache.space_caches[args[1]].tag_items
      [] op \in EdgeOps ->
            /\ args[1] \in DOMAIN cache.space_caches
            /\ args[2] \in DOMAIN cache.space_caches[args[1]].edge_items
      [] op = "get_part_leaders" -> args[1] \in DOMAIN cache.storage_leader

\* The answer the cache holds for a lookup whose key is cached.
CachedAnswer(op, args, cache) ==
    CASE op = "get_space_id" -> cache.space_caches[args[1]].space_id
      [] op = "get_part_alloc" -> cache.space_caches[args[1]].parts_alloc
      [] op = "get_tag_id" -> cache.space_caches[args[1]].tag_items[args[2]].tag_id
      [] op = "get_tag_schema" -> cache.space_caches[args[1]].tag_items[args[2]].schema
      [] op = "get_edge_type" -> cache.space_caches[args[1]].edge_items[args[2]].edge_type
      [] op = "get_edge_schema" -> cache.space_caches[args[1]].edge_items[args[2]].schema
      [] op = "get_part_leaders" -> cache.storage_leader[args[1]]

\* The NotFound error that matches the key a lookup misses.
MatchingNotFound(op, args, cache) ==
    CASE op \in SpaceOps \cup {"get_part_leaders"} -> SpaceNotFoundError(args[1])
      [] op \in TagOps -> IF args[1] \in DOMAIN cache.space_caches
                            THEN TagNotFoundError(args[2])
                            ELSE SpaceNotFoundError(args[1])
      [] op \in EdgeOps -> IF args[1] \in DOMAIN cache.space_caches
                             THEN EdgeNotFoundError(args[2])
                             ELSE SpaceNotFoundError(args[1])

C16_PartLeaderReloadsOnMissingPart ==
    [][MetaPerformed({"get_part_leader"}) =>
        LET m == meta_last'
        IN  ( /\ m.args[1] \in DOMAIN meta_cache.storage_leader
              /\ m.args[2] \notin DOMAIN meta_cache.storage_leader[m.args[1]] )
            => m.loads = 1
    ]_vars

(***************************************************************************)
(* C17.  On a fresh meta client a get_all_storage_addrs that succeeds has  *)
(* issued exactly one listSpaces, exactly one getPartsAlloc, one listTags  *)
(* and one listEdges for each space returned, and exactly one listHosts,   *)
(* and returns the hostAddr of each host in the order of the response.     *)
(* Once the list is cached, get_all_storage_addrs issues no RPC and        *)
(* returns the cached list.                                                *)
(***************************************************************************)
RpcCount(rpcs, name, id) ==
    Cardinality({k \in 1..Len(rpcs) : rpcs[k].rpc = name /\ rpcs[k].space_id = id})

C17_StorageAddrsLoadedOnce ==
    [][MetaPerformed({"get_all_storage_addrs"}) =>
        LET m == meta_last'
        IN  /\ (meta_cache = MetaCache_new /\ m.result.tag = "Ok") =>
                  LET sv == Unwrap(m.input).server
                      ids == {space_id_of(sv.spaces[k].id) : k \in 1..Len(sv.spaces)}
                  IN  /\ RpcCount(m.rpcs, "listSpaces", 0) = 1
                      /\ RpcCount(m.rpcs, "listHosts", 0) = 1
                      /\ \A id \in ids :
                            /\ RpcCount(m.rpcs, "getPartsAlloc", id) = 1
                            /\ RpcCount(m.rpcs, "listTags", id) = 1
                            /\ RpcCount(m.rpcs, "listEdges", id) = 1
                      /\ Len(m.rpcs) = 2 + 3 * Len(sv.spaces)
                      /\ m.result.value = [k \in 1..Len(sv.hosts) |-> sv.hosts[k].hostAddr]
                      /\ meta_cache'.storage_addrs = Some(m.result.value)
            /\ IsSome(meta_cache.storage_addrs) =>
                  /\ m.rpcs = <<>>
                  /\ m.loads = 0
                  /\ m.result = Ok(Unwrap(meta_cache.storage_addrs))
                  /\ meta_cache' = meta_cache
    ]_vars

\* The first load of a client, from a server with two spaces and two hosts.
C17_Witness ==
    /\ meta_last.op = "get_all_storage_addrs"
    /\ meta_last.loads = 1
    /\ meta_last.result = Ok(<<HostAddress(1), HostAddress(2)>>)
    /\ Len(meta_last.rpcs) = 8

(***************************************************************************)
(* C18.  After every successful load_all, for every space and every tag    *)
(* name listed in that space's listTags response (and every edge name in   *)
(* its listEdges response), the cached item of that name has the highest   *)
(* version listed for the name, in whatever order the versions came.       *)
(***************************************************************************)
MaxOf(S) == CHOOSE x \in S : \A y \in S : y <= x

C18_HighestVersionCached ==
    LoadSucceeded(meta_last) =>
        LET sv == Unwrap(meta_last.input).server
        IN  \A k \in 1..Len(sv.spaces) :
               LET listed == sv.of[space_id_of(sv.spaces[k].id)]
                   cached == meta_cache.space_caches[sv.spaces[k].name]
               IN  /\ \A i \in 1..Len(listed.tags) :
                        LET name == listed.tags[i].tag_name
                        IN  /\ name \in DOMAIN cached.tag_items
                            /\ cached.tag_items[name].version =
                                 MaxOf({listed.tags[j].version : j \in
                                     {j \in 1..Len(listed.tags) :
                                         listed.tags[j].tag_name = name}})
                   /\ \A i \in 1..Len(listed.edges) :
                        LET name == listed.edges[i].edge_name
                        IN  /\ name \in DOMAIN cached.edge_items
                            /\ cached.edge_items[name].version =
                                 MaxOf({listed.edges[j].version : j \in
                                     {j \in 1..Len(listed.edges) :
                                         listed.edges[j].edge_name = name}})

\* A load in which the versions of a tag were listed highest first and those
\* of an edge lowest first.
C18_Witness ==
    /\ LoadSucceeded(meta_last)
    /\ Len(Unwrap(meta_last.input).server.spaces) = 2
    /\ Unwrap(meta_last.input).server.spaces[1] = IdName(1, "s1")
    /\ Unwrap(meta_last.input).server.of[1] = SpaceC
    /\ meta_cache.space_caches["s1"].tag_items["player"].version = 1
    /\ meta_cache.space_caches["s1"].edge_items["follow"].version = 1

(***************************************************************************)
(* C19.  A load_all all of whose RPCs succeed completes, and after every   *)
(* load_all, for every cached space and every partition p of that space's  *)
(* parts_alloc, storage_leader[space][p] is defined and equals the first   *)
(* replica of parts_alloc[p], whatever the replica list getPartsAlloc      *)
(* returned for p.                                                         *)
(***************************************************************************)
C19_LeaderIsFirstReplica ==
    /\ meta_last.result.tag # "Panic"
    /\ \A sn \in DOMAIN meta_cache.space_caches :
          \A p \in DOMAIN meta_cache.space_caches[sn].parts_alloc :
             /\ sn \in DOMAIN meta_cache.storage_leader
             /\ p \in DOMAIN meta_cache.storage_leader[sn]
             /\ Len(meta_cache.space_caches[sn].parts_alloc[p]) >= 1
             /\ meta_cache.storage_leader[sn][p] =
                    meta_cache.space_caches[sn].parts_alloc[p][1]

(***************************************************************************)
(* C20.  If an RPC of load_all (listSpaces, getPartsAlloc, listTags,       *)
(* listEdges, listHosts) fails, the operation returns LoadError and the    *)
(* four tables of the cache are exactly what they were before the call;    *)
(* the cache changes only in a load_all that succeeds.                     *)
(***************************************************************************)
C20_FailedLoadKeepsCache ==
    [][LET m == meta_last'
       IN  /\ (m.loads = 1 /\ Unwrap(m.input).fail # 0) =>
                 /\ m.result.tag = "Err"
                 /\ m.result.error.kind = "LoadError"
                 /\ m.result.error.inner = LoadRpcs(Unwrap(m.input).server)[Unwrap(m.input).fail].rpc
                 /\ meta_cache'.space_caches = meta_cache.space_caches
                 /\ meta_cache'.space_id_names = meta_cache.space_id_names
                 /\ meta_cache'.storage_addrs = meta_cache.storage_addrs
                 /\ meta_cache'.storage_leader = meta_cache.storage_leader
           /\ meta_cache' # meta_cache => LoadSucceeded(m)
    ]_vars

\* A reload that failed at listTags of the second space, with a cache
\* loaded before.
C20_Witness ==
    /\ meta_last.loads = 1
    /\ Unwrap(meta_last.input).fail = 6
    /\ meta_last.result = Err(LoadError("listTags"))
    /\ IsSome(meta_cache.storage_addrs)
    /\ DOMAIN meta_cache.space_caches = {"s2"}

(***************************************************************************)
(* C29.  get_session performs its steps in a fixed order and stops at the  *)
(* first failure.  The host is selected first, whatever follows.  A        *)
(* transport that cannot be built gives TransportBuildError and no         *)
(* authenticate RPC.  A failed authenticate gives AuthenticateError and no *)
(* execute RPC.  A failed USE statement gives GraphQueryError.  A session  *)
(* is returned only after every applicable step has succeeded, and it has  *)
(* close_required = false.                                                 *)
(***************************************************************************)
RpcNames(rpcs) == [k \in 1..Len(rpcs) |-> rpcs[k].rpc]

C29_GetSessionStepsInOrder ==
    [][Performed({"get_session", "connect"}) =>
        LET in == last'.input
            r == last'.result
            names == RpcNames(last'.rpcs)
            sel == IF host_idx >= Len(host_addrs) THEN 0 ELSE host_idx
        IN  /\ last'.addr = host_addrs[sel + 1]
            /\ host_idx' = sel + 1
            /\ ~in.tr.ok =>
                  /\ r.tag = "Err" /\ r.error.kind = "TransportBuildError"
                  /\ names = <<>>
                  /\ sessions' = sessions
            /\ (in.tr.ok /\ ~AuthGranted(Unwrap(in.auth))) =>
                  /\ r.tag = "Err" /\ r.error.kind = "AuthenticateError"
                  /\ names = <<"authenticate">>
                  /\ sessions' = sessions
            /\ (in.tr.ok /\ AuthGranted(Unwrap(in.auth))) =>
                  /\ names = IF IsSome(space) THEN <<"authenticate", "execute">>
                                              ELSE <<"authenticate">>
                  /\ (r.tag = "Err") = (IsSome(space) /\ UseFailed(Unwrap(in.use)))
                  /\ r.tag = "Err" => r.error.kind = "GraphQueryError"
            /\ r.tag = "Ok" =>
                  /\ r.value.close_required = FALSE
                  /\ sessions' = Append(sessions, [obj |-> r.value,
                                                   where |-> sessions'[Len(sessions')].where])
            /\ r.tag = "Err" => sessions' = sessions
    ]_vars

\* A default space is configured and the login is refused: the host was
\* selected, one authenticate RPC was issued and no execute RPC.
C29_Witness ==
    /\ last.op = "get_session"
    /\ IsSome(space)
    /\ last.input.tr.ok
    /\ ~AuthGranted(Unwrap(last.input.auth))
    /\ last.result.tag = "Err"
    /\ last.result.error.kind = "AuthenticateError"
    /\ last.addr = host_addrs[1]
    /\ host_idx = 1
    /\ sessions = <<>>

(***************************************************************************)
(* C30.  After every successful load_all the cache holds exactly the       *)
(* spaces returned by that load's listSpaces: space_id_names, space_caches *)
(* and storage_leader have an entry for each returned space and none for   *)
(* a space cached earlier that the latest listSpaces does not return.      *)
(***************************************************************************)
C30_CacheHoldsExactlyListedSpaces ==
    LoadSucceeded(meta_last) =>
        LET listed == Unwrap(meta_last.input).server.spaces
            names == {listed[k].name : k \in 1..Len(listed)}
            ids == {space_id_of(listed[k].id) : k \in 1..Len(listed)}
        IN  /\ DOMAIN meta_cache.space_caches = names
            /\ DOMAIN meta_cache.storage_leader = names
            /\ DOMAIN meta_cache.space_id_names = ids
            /\ \A k \in 1..Len(listed) :
                  /\ meta_cache.space_id_names[space_id_of(listed[k].id)] = listed[k].name
                  /\ meta_cache.space_caches[listed[k].name].space_id =
                         space_id_of(listed[k].id)

\* A reload for a tag of s1 found that the server no longer lists s1: the
\* cache holds s2 alone and the lookup fails with SpaceNotFound.
C30_Witness ==
    /\ LoadSucceeded(meta_last)
    /\ meta_last.op = "get_tag_id"
    /\ meta_last.args = <<"s1", "team">>
    /\ meta_last.result.tag = "Err"
    /\ meta_last.result.error = SpaceNotFoundError("s1")
    /\ DOMAIN meta_cache.space_caches = {"s2"}
    /\ DOMAIN meta_cache.space_id_names = {2}

(***************************************************************************)
(* Part 7: Value, ValueWrapper, DataSet and DataSetWrapper.                *)
(*                                                                         *)
(* A Value is one arm of the wire union, known by its tag; the payload of  *)
(* each arm is held in a field of its own.  An f64 is held as its decimal  *)
(* text and a byte string as its text together with whether the bytes are  *)
(* valid UTF-8.  The timezone of a wrapper takes part in no operation and  *)
(* is left out.                                                            *)
(***************************************************************************)
MaxRows == 2     \* most rows of a dataset drawn

nVal(v) == [tag |-> "nVal", null |-> v]

bVal(v) == [tag |-> "bVal", bool |-> v]

iVal(v) == [tag |-> "iVal", int |-> v]

fVal(v) == [tag |-> "fVal", float |-> v]

sVal(v) == [tag |-> "sVal", bytes |-> v]

dVal(v) == [tag |-> "dVal", date |-> v]

tVal(v) == [tag |-> "tVal", time |-> v]

dtVal(v) == [tag |-> "dtVal", datetime |-> v]

vVal(v) == [tag |-> "vVal", vertex |-> v]

eVal(v) == [tag |-> "eVal", edge |-> v]

pVal(v) == [tag |-> "pVal", path |-> v]

lVal(v) == [tag |-> "lVal", list |-> v]

mVal(v) == [tag |-> "mVal", map |-> v]

uVal(v) == [tag |-> "uVal", set |-> v]

ggVal(v) == [tag |-> "ggVal", geography |-> v]

duVal(v) == [tag |-> "duVal", duration |-> v]

\* The arm left when no variant is set.
UnknownField == [tag |-> "UnknownField"]

\* A byte string.
Bytes(text, utf8) == [text |-> text, utf8 |-> utf8]

\* String::from_utf8
from_utf8(bytes) == IF bytes.utf8 THEN Ok(bytes.text) ELSE Err("FromUtf8Error")

\* One value of every arm, and a string that is not UTF-8.
ScalarSamples ==
    { nVal("__NULL__"), bVal(TRUE), iVal(7), fVal("1.5"), sVal(Bytes("ab", TRUE)),
      sVal(Bytes("", FALSE)),
      dVal([year |-> 2024, month |-> 2, day |-> 9]),
      tVal([hour |-> 7, minute |-> 30, sec |-> 5, microsec |-> 42]),
      dtVal([year |-> 987, month |-> 12, day |-> 31, hour |-> 23, minute |-> 59,
             sec |-> 59, microsec |-> 123456]),
      duVal([months |-> 1, seconds |-> 2, microseconds |-> 3]),
      UnknownField }

ContainerSamples ==
    { vVal("v1"), eVal("e1"), pVal("p1"), lVal(<<>>), mVal("m1"), uVal("u1"),
      ggVal("POINT(1 2)") }

ValueSamples == ScalarSamples \cup ContainerSamples

\* ValueWrapper::new
ValueWrapper_new(val) == [value |-> val]

\* gen_val_wraps
gen_val_wraps(row) == [k \in 1..Len(row.values) |-> ValueWrapper_new(row.values[k])]

\* ValueWrapper::get_type
get_type(self) ==
    CASE self.value.tag = "nVal" -> "null"
      [] self.value.tag = "bVal" -> "bool"
      [] self.value.tag = "iVal" -> "int"
      [] self.value.tag = "fVal" -> "float"
      [] self.value.tag = "sVal" -> "string"
      [] self.value.tag = "dVal" -> "date"
      [] self.value.tag = "tVal" -> "time"
      [] self.value.tag = "dtVal" -> "datetime"
      [] self.value.tag = "vVal" -> "vertex"
      [] self.value.tag = "eVal" -> "edge"
      [] self.value.tag = "pVal" -> "path"
      [] self.value.tag = "lVal" -> "list"
      [] self.value.tag = "mVal" -> "map"
      [] self.value.tag = "uVal" -> "set"
      [] self.value.tag = "ggVal" -> "geography"
      [] self.value.tag = "duVal" -> "duration"
      [] OTHER -> "empty"

\* ValueWrapper: the is_* predicates.
ValueWrapper_is_empty(self) == get_type(self) = "empty"

is_null(self) == self.value.tag = "nVal"

is_bool(self) == self.value.tag = "bVal"

is_int(self) == self.value.tag = "iVal"

is_float(self) == self.value.tag = "fVal"

is_string(self) == self.value.tag = "sVal"

is_time(self) == self.value.tag = "tVal"

is_date(self) == self.value.tag = "dVal"

is_datetime(self) == self.value.tag = "dtVal"

is_list(self) == self.value.tag = "lVal"

is_set(self) == self.value.tag = "uVal"

is_map(self) == self.value.tag = "mVal"

is_vertex(self) == self.value.tag = "vVal"

is_edge(self) == self.value.tag = "eVal"

is_path(self) == self.value.tag = "pVal"

is_geography(self) == self.value.tag = "ggVal"

is_duration(self) == self.value.tag = "duVal"

ConversionError(from_type, to_type) == [from_type |-> from_type, to_type |-> to_type]

\* `todo!()`: the thread panics.
todo == Panic

\* ValueWrapper: the as_* accessors.
as_null(self) ==
    IF self.value.tag = "nVal" THEN Ok(self.value.null)
    ELSE Err(ConversionError(get_type(self), "Null"))

as_bool(self) ==
    IF self.value.tag = "bVal" THEN Ok(self.value.bool)
    ELSE Err(ConversionError(get_type(self), "bool"))

as_int(self) ==
    IF self.value.tag = "iVal" THEN Ok(self.value.int)
    ELSE Err(ConversionError(get_type(self), "int"))

as_float(self) ==
    IF self.value.tag = "fVal" THEN Ok(self.value.float)
    ELSE Err(ConversionError(get_type(self), "float"))

\* `String::from_utf8(v.to_vec()).unwrap()` panics on bytes that are not
\* UTF-8.
as_string(self) ==
    IF self.value.tag = "sVal"
        THEN IF from_utf8(self.value.bytes).tag = "Ok"
                 THEN Ok(from_utf8(self.value.bytes).value)
                 ELSE Panic
        ELSE Err(ConversionError(get_type(self), "string"))

as_time(self) == todo

as_date(self) == todo

as_date_time(self) == todo

as_list(self) == todo

as_dedup_list(self) == todo

as_map(self) == todo

as_node(self) == todo

as_relationship(self) == todo

as_path(self) == todo

as_geography(self) == todo

as_duration(self) == todo

\* `{:02}`, `{:04}` and `{:06}` of a number that is not negative.
Pad2(n) == IF n < 10 THEN "0" \o ToString(n) ELSE ToString(n)

Pad4(n) ==
    IF n < 10 THEN "000" \o ToString(n)
    ELSE IF n < 100 THEN "00" \o ToString(n)
    ELSE IF n < 1000 THEN "0" \o ToString(n)
    ELSE ToString(n)

Pad6(n) ==
    IF n < 10000 THEN "00" \o Pad4(n)
    ELSE IF n < 100000 THEN "0" \o ToString(n)
    ELSE ToString(n)

\* ValueWrapper::to_string.  `s.extend(String::from_utf8(..))` adds nothing
\* for bytes that are not UTF-8.
to_string(self) ==
    LET v == self.value
    IN  CASE v.tag = "nVal" -> Ok(v.null)
          [] v.tag = "bVal" -> Ok(IF v.bool THEN "true" ELSE "false")
          [] v.tag = "iVal" -> Ok(ToString(v.int))
          [] v.tag = "fVal" -> Ok(v.float)
          [] v.tag = "sVal" ->
                 Ok("\"" \o (IF from_utf8(v.bytes).tag = "Ok" THEN from_utf8(v.bytes).value
                                                               ELSE "") \o "\"")
          [] v.tag = "dVal" ->
                 Ok(Pad4(v.date.year) \o "-" \o Pad2(v.date.month) \o "-" \o Pad2(v.date.day))
          [] v.tag = "tVal" ->
                 Ok(Pad2(v.time.hour) \o ":" \o Pad2(v.time.minute) \o ":"
                        \o Pad2(v.time.sec) \o "." \o Pad6(v.time.microsec))
          [] v.tag = "dtVal" ->
                 Ok(Pad4(v.datetime.year) \o "-" \o Pad2(v.datetime.month) \o "-"
                        \o Pad2(v.datetime.day) \o " " \o Pad2(v.datetime.hour) \o ":"
                        \o Pad2(v.datetime.minute) \o ":" \o Pad2(v.datetime.sec) \o "."
                        \o Pad6(v.datetime.microsec))
          [] v.tag \in {"vVal", "eVal", "pVal", "lVal", "mVal", "uVal", "ggVal"} -> todo
          [] v.tag = "duVal" ->
                 Ok(ToString(v.duration.months) \o " months, "
                        \o ToString(v.duration.seconds) \o " seconds, "
                        \o ToString(v.duration.microseconds) \o " microseconds")
          [] OTHER -> Ok("")

\* A map of the column names that counts the positions from 1.
RECURSIVE index_columnsFromOne(_, _, _)
index_columnsFromOne(col_name_index_map, column_names, i) ==
    IF i >= Len(column_names) THEN col_name_index_map
    ELSE index_columnsFromOne(insert(col_name_index_map, column_names[i + 1], i + 1),
                              column_names, i + 1)

\* A map of the column names in which the first column of a name stays.
RECURSIVE index_columnsFirstWins(_, _, _)
index_columnsFirstWins(col_name_index_map, column_names, i) ==
    IF i >= Len(column_names) THEN col_name_index_map
    ELSE index_columnsFirstWins(
             IF contains_key(col_name_index_map, column_names[i + 1])
                 THEN col_name_index_map
                 ELSE insert(col_name_index_map, column_names[i + 1], i),
             column_names, i + 1)

\* DataSetWrapper::new: every column name is inserted with its position,
\* counted from 0, in the order of the column list.
RECURSIVE index_columns(_, _, _)
index_columns(col_name_index_map, column_names, i) ==
    IF i >= Len(column_names) THEN col_name_index_map
    ELSE index_columns(insert(col_name_index_map, column_names[i + 1], i),
                       column_names, i + 1)

DataSetWrapper_new(dataset) ==
    [dataset |-> dataset,
     col_name_index_map |-> index_columns(EmptyMap, dataset.column_names, 0)]

\* The accessors, each with the type it converts to.
Accessors ==
    ("as_null" :> "null") @@ ("as_bool" :> "bool") @@ ("as_int" :> "int")
        @@ ("as_float" :> "float") @@ ("as_string" :> "string") @@ ("as_time" :> "time")
        @@ ("as_date" :> "date") @@ ("as_date_time" :> "datetime")
        @@ ("as_list" :> "list") @@ ("as_dedup_list" :> "list") @@ ("as_map" :> "map")
        @@ ("as_node" :> "vertex") @@ ("as_relationship" :> "edge")
        @@ ("as_path" :> "path") @@ ("as_geography" :> "geography")
        @@ ("as_duration" :> "duration")

\* The accessor `name` called on a wrapper.
call_accessor(name, self) ==
    CASE name = "as_null" -> as_null(self)
      [] name = "as_bool" -> as_bool(self)
      [] name = "as_int" -> as_int(self)
      [] name = "as_float" -> as_float(self)
      [] name = "as_string" -> as_string(self)
      [] name = "as_time" -> as_time(self)
      [] name = "as_date" -> as_date(self)
      [] name = "as_date_time" -> as_date_time(self)
      [] name = "as_list" -> as_list(self)
      [] name = "as_dedup_list" -> as_dedup_list(self)
      [] name = "as_map" -> as_map(self)
      [] name = "as_node" -> as_node(self)
      [] name = "as_relationship" -> as_relationship(self)
      [] name = "as_path" -> as_path(self)
      [] name = "as_geography" -> as_geography(self)
      [] name = "as_duration" -> as_duration(self)

\* The is_* predicates that hold of a wrapper, each named by its type.
holding(self) ==
    {t \in {"empty"} : ValueWrapper_is_empty(self)}
        \cup {t \in {"null"} : is_null(self)} \cup {t \in {"bool"} : is_bool(self)}
        \cup {t \in {"int"} : is_int(self)} \cup {t \in {"float"} : is_float(self)}
        \cup {t \in {"string"} : is_string(self)} \cup {t \in {"time"} : is_time(self)}
        \cup {t \in {"date"} : is_date(self)} \cup {t \in {"datetime"} : is_datetime(self)}
        \cup {t \in {"list"} : is_list(self)} \cup {t \in {"set"} : is_set(self)}
        \cup {t \in {"map"} : is_map(self)} \cup {t \in {"vertex"} : is_vertex(self)}
        \cup {t \in {"edge"} : is_edge(self)} \cup {t \in {"path"} : is_path(self)}
        \cup {t \in {"geography"} : is_geography(self)}
        \cup {t \in {"duration"} : is_duration(self)}

\* A wrapper of the value val asked for its type, with every is_* predicate
\* and with the accessor `name`.  A thread that panicked calls nothing more.
Inspect(val, name) ==
    /\ value_last.result.tag # "Panic"
    /\ value_last' = [op |-> name, value |-> Some(val),
                      result |-> call_accessor(name, ValueWrapper_new(val)),
                      holds |-> holding(ValueWrapper_new(val)),
                      type |-> get_type(ValueWrapper_new(val))]
    /\ UNCHANGED <<host_addrs, host_idx, threadVars, space, sessions, last, wireVars,
                   cloneVars, metaVars, storageVars, data_in, data_last>>

InitValue ==
    /\ ConfNew(<<HostAddress(1)>>)
    /\ space = None
    /\ sessions = <<>>
    /\ last = NoOp
    /\ ExtInit

NextValue == \E val \in ValueSamples, name \in DOMAIN Accessors : Inspect(val, name)

SpecValue == InitValue /\ [][NextValue]_vars

\* DataSetWrapper: the getters.
get_rows(self) == self.dataset.rows

get_col_names(self) == self.dataset.column_names

get_row_size(self) == Len(get_rows(self))

get_col_size(self) == Len(get_col_names(self))

\* An is_empty that looks at the rows.
DataSetWrapper_is_emptyWithoutRows(self) == Len(self.dataset.rows) = 0

DataSetWrapper_is_empty(self) == get_col_size(self) = 0

has_col_name(self, col_name) == contains_key(self.col_name_index_map, col_name)

\* DataSetError
InvalidIndexError(index, len) == [kind |-> "InvalidIndexError", index |-> index, len |-> len]

UnexistedColumnError(col_name) == [kind |-> "UnexistedColumnError", name |-> col_name]

DataSetError_DataDeserializeError(e) == [kind |-> "DataDeserializeError", inner |-> e]

\* `vec[index]` with index counted from 0: the element, or a panic when the
\* index is out of bounds.
IndexOrPanic(vec, index) == IF index < Len(vec) THEN Ok(vec[index + 1]) ELSE Panic

\* A list of results collected as Rust collects a list computed element by
\* element: the first panic ends the computation.
AllOk(results) == \A k \in 1..Len(results) : results[k].tag = "Ok"

Collect(results) ==
    IF AllOk(results) THEN Ok([k \in 1..Len(results) |-> results[k].value]) ELSE Panic

\* DataSetWrapper::as_string_table: the column names, then every row with
\* its values rendered.
as_string_table(self) ==
    LET col_names == get_col_names(self)
        rows == get_rows(self)
        rendered(row) ==
            Collect([k \in 1..Len(row.values) |-> to_string(ValueWrapper_new(row.values[k]))])
        rows_table == Collect([i \in 1..Len(rows) |-> rendered(rows[i])])
    IN  IF rows_table.tag = "Ok" THEN Ok(<<col_names>> \o rows_table.value) ELSE Panic

\* DataSetWrapper::get_values_by_col_name
get_values_by_col_name(self, col_name) ==
    IF ~has_col_name(self, col_name) THEN Err(UnexistedColumnError(col_name))
    ELSE LET index == self.col_name_index_map[col_name]
             rows == get_rows(self)
             at(row) == IF IndexOrPanic(row.values, index).tag = "Ok"
                            THEN Ok(ValueWrapper_new(IndexOrPanic(row.values, index).value))
                            ELSE Panic
         IN  Collect([i \in 1..Len(rows) |-> at(rows[i])])

\* DataSetWrapper::get_row_values_by_index: the Record of a row.
get_row_values_by_index(self, index) ==
    IF index >= get_row_size(self) THEN Err(InvalidIndexError(index, get_row_size(self)))
    ELSE Ok([column_names |-> get_col_names(self),
             records |-> gen_val_wraps(get_rows(self)[index + 1]),
             col_name_index_map |-> self.col_name_index_map])

\* Record::get_value_by_index
Record_get_value_by_index(self, index) ==
    IF index > Len(self.records) THEN Err(InvalidIndexError(index, Len(self.records)))
    ELSE IndexOrPanic(self.records, index)

\* Record::get_value_by_col_name
Record_get_value_by_col_name(self, col_name) ==
    IF ~contains_key(self.col_name_index_map, col_name)
        THEN Err(UnexistedColumnError(col_name))
        ELSE IndexOrPanic(self.records, self.col_name_index_map[col_name])

\* The records a scan deserializes into: the fields of the struct D and the
\* type of each.
RecordTypes == {EmptyMap, ("b" :> "int"), ("a" :> "string") @@ ("b" :> "int")}

\* D::deserialize(DataDeserializer::new(names, values)): every field of D is
\* taken from the column of its name, converted by the accessor of its type;
\* a field without a column and a value of another type are errors, and the
\* error names the fields that failed.  Of several columns of one name the
\* first is taken.
FirstColumn(names, field) == CHOOSE k \in 1..Len(names) :
                                 names[k] = field /\ \A j \in 1..(k - 1) : names[j] # field

deserialize_field(names, values, field, type) ==
    IF \A k \in 1..Len(names) : names[k] # field
        THEN Err([field |-> field, missing |-> TRUE])
    ELSE LET self == ValueWrapper_new(values[FirstColumn(names, field)])
             got == IF type = "int" THEN as_int(self) ELSE as_string(self)
         IN  IF got.tag = "Err" THEN Err([field |-> field, conversion |-> got.error])
             ELSE got

deserialize(D, names, values) ==
    LET fields == [f \in DOMAIN D |-> deserialize_field(names, values, f, D[f])]
    IN  IF \E f \in DOMAIN D : fields[f].tag = "Panic" THEN Panic
        ELSE IF \E f \in DOMAIN D : fields[f].tag = "Err"
            THEN Err([failed |-> {f \in DOMAIN D : fields[f].tag = "Err"}])
        ELSE Ok([f \in DOMAIN D |-> fields[f].value])

\* DataSetWrapper::scan::<D>: the rows deserialized until the first that
\* fails.
RECURSIVE scan_rows(_, _, _, _)
scan_rows(D, names, rows, data_set) ==
    IF rows = <<>> THEN Ok(data_set)
    ELSE LET data == deserialize(D, names, Head(rows).values)
         IN  IF data.tag = "Panic" THEN Panic
             ELSE IF data.tag = "Err"
                 THEN Err(DataSetError_DataDeserializeError(data.error))
             ELSE scan_rows(D, names, Tail(rows), Append(data_set, data.value))

DataSetWrapper_scan(self, D) ==
    IF DataSetWrapper_is_empty(self) THEN Ok(<<>>)
    ELSE scan_rows(D, get_col_names(self), get_rows(self), <<>>)

\* The datasets drawn: every row has as many values as there are columns.
\* Column lists without a column, with distinct names and with a name that
\* occurs twice; rows whose values tell the columns apart, one of them with
\* a value that has no rendering.
ColumnLists == {<<>>, <<"a">>, <<"a", "b">>, <<"a", "a">>, <<"a", "b", "a">>}

RowSamples(n) ==
    { [values |-> [k \in 1..n |-> iVal(k)]],
      [values |-> [k \in 1..n |-> IF k = 1 THEN sVal(Bytes("ab", TRUE)) ELSE iVal(10 + k)]],
      [values |-> [k \in 1..n |-> IF k = n THEN lVal(<<>>) ELSE iVal(20 + k)]] }

RowLists(n) == UNION {[1..m -> RowSamples(n)] : m \in 0..MaxRows}

DataSets ==
    UNION {{[column_names |-> cs, rows |-> rs] : rs \in RowLists(Len(cs))} :
               cs \in ColumnLists}

ColNameSamples == {"a", "b", "c"}

\* An operation `op` of the DataSetWrapper of data_in, or of one of its
\* Records, called with `args`.  A thread that panicked calls nothing more.
DataCall(op, args, result) ==
    /\ data_last.result.tag # "Panic"
    /\ data_last' = [op |-> op, args |-> args, result |-> result]
    /\ UNCHANGED <<host_addrs, host_idx, threadVars, space, sessions, last, wireVars,
                   cloneVars, metaVars, storageVars, data_in, value_last>>

AsStringTable ==
    DataCall("as_string_table", <<>>, as_string_table(DataSetWrapper_new(data_in)))

GetValuesByColName(col_name) ==
    DataCall("get_values_by_col_name", <<col_name>>,
             get_values_by_col_name(DataSetWrapper_new(data_in), col_name))

GetRowValuesByIndex(index) ==
    DataCall("get_row_values_by_index", <<index>>,
             get_row_values_by_index(DataSetWrapper_new(data_in), index))

RecordGetValueByIndex(row, index) ==
    /\ row < Len(data_in.rows)
    /\ DataCall("Record::get_value_by_index", <<row, index>>,
                Record_get_value_by_index(
                    get_row_values_by_index(DataSetWrapper_new(data_in), row).value, index))

RecordGetValueByColName(row, col_name) ==
    /\ row < Len(data_in.rows)
    /\ DataCall("Record::get_value_by_col_name", <<row, col_name>>,
                Record_get_value_by_col_name(
                    get_row_values_by_index(DataSetWrapper_new(data_in), row).value,
                    col_name))

Scan(D) == DataCall("scan", <<D>>, DataSetWrapper_scan(DataSetWrapper_new(data_in), D))

IsEmpty == DataCall("is_empty", <<>>, Ok(DataSetWrapper_is_empty(DataSetWrapper_new(data_in))))

GetRowSize == DataCall("get_row_size", <<>>, Ok(get_row_size(DataSetWrapper_new(data_in))))

GetColSize == DataCall("get_col_size", <<>>, Ok(get_col_size(DataSetWrapper_new(data_in))))

InitDataSet ==
    /\ ConfNew(<<HostAddress(1)>>)
    /\ space = None
    /\ sessions = <<>>
    /\ last = NoOp
    /\ pending = {}
    /\ trace = <<>>
    /\ clone = None
    /\ meta_cache = MetaCache_new
    /\ meta_last = NoMetaOp
    /\ connection_map = EmptyMap
    /\ conn_log = <<>>
    /\ storage_last = NoStorageOp
    /\ data_in \in DataSets
    /\ data_last = NoDataOp
    /\ value_last = NoValueOp

NextDataSet ==
    \/ AsStringTable
    \/ \E col_name \in ColNameSamples : GetValuesByColName(col_name)
    \/ \E index \in 0..(MaxRows + 1) : GetRowValuesByIndex(index)
    \/ \E row \in 0..MaxRows, index \in 0..4 : RecordGetValueByIndex(row, index)
    \/ \E row \in 0..MaxRows, col_name \in ColNameSamples :
          RecordGetValueByColName(row, col_name)
    \/ \E D \in RecordTypes : Scan(D)
    \/ IsEmpty
    \/ GetRowSize
    \/ GetColSize

SpecDataSet == InitDataSet /\ [][NextDataSet]_vars

(***************************************************************************)
(* Part 8: StorageClient, the scan fan-out.                                *)
(*                                                                         *)
(* A StorageClient owns a MetaClient (its cache is meta_cache) and a map   *)
(* from leader address to storage connection.  scan_vertex and scan_edge   *)
(* take `&mut self`, so a scan runs from its first meta lookup to its      *)
(* return without another scan of the same client in between; each is one  *)
(* action.  The server does not change during one scan: every load_all of  *)
(* one scan is given the same input.                                       *)
(***************************************************************************)
MaxConns == 3    \* storage connections opened before the model stops scanning

\* storage/query.rs
DEFAULT_START_TIME == 0

\* i64::MAX, which is beyond the integers TLC computes with.
DEFAULT_END_TIME == "i64::MAX"

DEFAULT_LIMIT == 1000

\* storage/client.rs
K_VID == "_vid"

K_SRC == "_src"

K_TYPE == "_type"

K_RANK == "_rank"

K_DST == "_dst"

\* A space whose three partitions are led by two hosts, and one without
\* partitions.
SpaceFanOut ==
    [parts |-> (1 :> <<HostAddress(1), HostAddress(2)>>) @@ (2 :> <<HostAddress(2)>>)
                   @@ (3 :> <<HostAddress(1)>>),
     tags |-> <<TagItem(2, "player", 0)>>,
     edges |-> <<EdgeItem(5, "follow", 1)>>]

SpaceNoPart ==
    [parts |-> EmptyMap,
     tags |-> <<TagItem(2, "player", 0)>>,
     edges |-> <<EdgeItem(5, "follow", 1)>>]

\* The meta server as a scan may find it; in the second, space s1 has been
\* dropped and created again, which gave it a new id.
StorageServers ==
    { Server(<<>>, EmptyMap, <<HostItem(1)>>),
      Server(<<IdName(1, "s1")>>, (1 :> SpaceFanOut), <<HostItem(1), HostItem(2)>>),
      Server(<<IdName(3, "s1")>>, (3 :> SpaceC), <<HostItem(1), HostItem(2)>>),
      Server(<<IdName(1, "s1"), IdName(2, "s2")>>, (1 :> SpaceC) @@ (2 :> SpaceFanOut),
             <<HostItem(1), HostItem(2)>>),
      Server(<<IdName(1, "s1"), IdName(2, "s2")>>, (1 :> SpaceNoPart) @@ (2 :> SpaceB),
             <<HostItem(2)>>) }

StorageLoadInputs ==
    {[server |-> sv, fail |-> 0] : sv \in StorageServers}
    \cup {[server |-> sv, fail |-> 1] : sv \in {s \in StorageServers : Len(s.spaces) = 1}}

\* StorageClientError and StorageQueryError
CreateTransportError(saddr) == [kind |-> "CreateTransportError", saddr |-> saddr]

StorageClientError_MetaClientError(e) == [kind |-> "MetaClientError", inner |-> e]

StorageClientError_StorageQueryError(e) == [kind |-> "StorageQueryError", inner |-> e]

ScanVertexError(part_id) == [kind |-> "ScanVertexError", part |-> part_id]

ScanEdgeError(part_id) == [kind |-> "ScanEdgeError", part |-> part_id]

\* `for col in &schema.columns { props.push(col.name.clone()) }`: a schema
\* is known by the number of its columns; its k-th column is named here.
col_name(k) == IF k = 1 THEN "c1" ELSE IF k = 2 THEN "c2" ELSE "c3"

schema_col_names(schema) == [k \in 1..schema.columns |-> col_name(k)]

\* `.map_err(StorageClientError::MetaClientError)?` on a lookup that did
\* not return Ok: the cache as the lookup left it and what the scan returns.
meta_lookup_failed(l, loads) ==
    [cache |-> l.cache,
     result |-> IF l.result.tag = "Err"
                    THEN Err(StorageClientError_MetaClientError(l.result.error))
                    ELSE l.result,
     loads |-> loads]

\* `let v = <value>; <rest>`: the value is computed once and `rest` is
\* applied to it.
LetIn(value, rest(_)) == CHOOSE r \in {rest(v) : v \in {value}} : TRUE

\* The lookups of a scan after the first three: `names` are the property
\* names requested or those of the schema, `loads` the load_all calls made
\* so far.
scan_leaders(cache, space_name, space_id, prop, loads, in) ==
    LetIn(get_part_leaders(cache, space_name, in), LAMBDA result_map :
        IF result_map.result.tag # "Ok"
            THEN meta_lookup_failed(result_map, loads + result_map.loads)
            ELSE [cache |-> result_map.cache,
                  result |-> Ok([space_id |-> space_id, prop |-> prop,
                                 leader_map |-> result_map.result.value]),
                  loads |-> loads + result_map.loads])

\* scan_vertex up to `get_part_leaders`: the space id, the VertexProp and
\* the leader map, or the error of the first lookup that fails.
scan_vertex_props(cache, space_name, tag_name, prop_names, space_id, tag_id, loads, in) ==
    IF IsSome(prop_names)
        THEN scan_leaders(cache, space_name, space_id,
                          [tag |-> tag_id, props |-> <<K_VID>> \o Unwrap(prop_names)],
                          loads, in)
        ELSE LetIn(get_tag_schema(cache, space_name, tag_name, in), LAMBDA schema :
                 IF schema.result.tag # "Ok"
                     THEN meta_lookup_failed(schema, loads + schema.loads)
                     ELSE scan_leaders(schema.cache, space_name, space_id,
                                       [tag |-> tag_id,
                                        props |-> <<K_VID>> \o
                                            schema_col_names(schema.result.value)],
                                       loads + schema.loads, in))

scan_vertex_lookups(cache, space_name, tag_name, prop_names, in) ==
    LetIn(get_space_id(cache, space_name, in), LAMBDA space_id :
        IF space_id.result.tag # "Ok" THEN meta_lookup_failed(space_id, space_id.loads)
        ELSE LetIn(get_tag_id(space_id.cache, space_name, tag_name, in), LAMBDA tag_id :
                 IF tag_id.result.tag # "Ok"
                     THEN meta_lookup_failed(tag_id, space_id.loads + tag_id.loads)
                     ELSE scan_vertex_props(tag_id.cache, space_name, tag_name, prop_names,
                                            space_id.result.value, tag_id.result.value,
                                            space_id.loads + tag_id.loads, in)))

\* scan_edge up to `get_part_leaders`.
scan_edge_props(cache, space_name, edge_name, prop_names, space_id, edge_type, loads, in) ==
    IF IsSome(prop_names)
        THEN scan_leaders(cache, space_name, space_id,
                          [type |-> edge_type,
                           props |-> <<K_SRC, K_TYPE, K_RANK, K_DST>> \o Unwrap(prop_names)],
                          loads, in)
        ELSE LetIn(get_edge_schema(cache, space_name, edge_name, in), LAMBDA schema :
                 IF schema.result.tag # "Ok"
                     THEN meta_lookup_failed(schema, loads + schema.loads)
                     ELSE scan_leaders(schema.cache, space_name, space_id,
                                       [type |-> edge_type,
                                        props |-> <<K_SRC, K_TYPE, K_RANK, K_DST>> \o
                                            schema_col_names(schema.result.value)],
                                       loads + schema.loads, in))

scan_edge_lookups(cache, space_name, edge_name, prop_names, in) ==
    LetIn(get_space_id(cache, space_name, in), LAMBDA space_id :
        IF space_id.result.tag # "Ok" THEN meta_lookup_failed(space_id, space_id.loads)
        ELSE LetIn(get_edge_type(space_id.cache, space_name, edge_name, in),
                   LAMBDA edge_type :
                 IF edge_type.result.tag # "Ok"
                     THEN meta_lookup_failed(edge_type, space_id.loads + edge_type.loads)
                     ELSE scan_edge_props(edge_type.cache, space_name, edge_name,
                                          prop_names, space_id.result.value,
                                          edge_type.result.value,
                                          space_id.loads + edge_type.loads, in)))

\* `format!("{}:{}", host_addr.host, host_addr.port)`
saddr_of(host_addr) == host_addr.host \o ":" \o ToString(host_addr.port)

\* The order in which a HashMap keyed by partition id is iterated is not
\* specified: a walk is one of the orders, the partitions of the map in the
\* order `order` lists them.
walk_of(m, order) == SelectSeq(order, LAMBDA p : p \in DOMAIN m)

CanonicalOrder == <<1, 2, 3>>

\* A connect loop that opens a connection for every partition, whether the
\* map holds its leader or not.
RECURSIVE connect_leadersPerPartition(_, _, _, _, _)
connect_leadersPerPartition(map, log, leader_map, walk, down) ==
    IF walk = <<>> THEN [map |-> map, log |-> log, result |-> Ok("unit")]
    ELSE LET host_addr == leader_map[Head(walk)]
         IN  IF host_addr \in down
                 THEN [map |-> map, log |-> log,
                       result |-> Err(CreateTransportError(saddr_of(host_addr)))]
                 ELSE connect_leadersPerPartition(insert(map, host_addr, Len(log) + 1),
                                                  Append(log, host_addr), leader_map,
                                                  Tail(walk), down)

\* A connect loop that, once done, drops the connections to the leaders
\* this scan does not reference.
RECURSIVE connect_leadersDropsUnreferenced(_, _, _, _, _)
connect_leadersDropsUnreferenced(map, log, leader_map, walk, down) ==
    IF walk = <<>>
        THEN [map |-> [a \in DOMAIN map \cap {leader_map[p] : p \in DOMAIN leader_map}
                           |-> map[a]],
              log |-> log, result |-> Ok("unit")]
    ELSE LET host_addr == leader_map[Head(walk)]
         IN  IF ~contains_key(map, host_addr)
                 THEN IF host_addr \in down
                          THEN [map |-> map, log |-> log,
                                result |-> Err(CreateTransportError(saddr_of(host_addr)))]
                          ELSE connect_leadersDropsUnreferenced(
                                   insert(map, host_addr, Len(log) + 1),
                                   Append(log, host_addr), leader_map, Tail(walk), down)
                 ELSE connect_leadersDropsUnreferenced(map, log, leader_map, Tail(walk),
                                                       down)

\* A connect loop that goes on to the next leader when an address cannot
\* be connected.
RECURSIVE connect_leadersSkipsDown(_, _, _, _, _)
connect_leadersSkipsDown(map, log, leader_map, walk, down) ==
    IF walk = <<>> THEN [map |-> map, log |-> log, result |-> Ok("unit")]
    ELSE LET host_addr == leader_map[Head(walk)]
         IN  IF ~contains_key(map, host_addr) /\ host_addr \notin down
                 THEN connect_leadersSkipsDown(insert(map, host_addr, Len(log) + 1),
                                               Append(log, host_addr), leader_map,
                                               Tail(walk), down)
                 ELSE connect_leadersSkipsDown(map, log, leader_map, Tail(walk), down)

\* scan_vertex lines 161-167, scan_edge lines 220-226: a connection is
\* opened to every leader the map does not hold yet, in the order the leader
\* map is walked; `?` returns at the first address that cannot be connected
\* (those in `down`).  A connection is known by its number in conn_log.
RECURSIVE connect_leaders(_, _, _, _, _)
connect_leaders(map, log, leader_map, walk, down) ==
    IF walk = <<>> THEN [map |-> map, log |-> log, result |-> Ok("unit")]
    ELSE LET host_addr == leader_map[Head(walk)]
             saddr == saddr_of(host_addr)
         IN  IF ~contains_key(map, host_addr)
                 THEN IF host_addr \in down
                          THEN [map |-> map, log |-> log,
                                result |-> Err(CreateTransportError(saddr))]
                          ELSE connect_leaders(insert(map, host_addr, Len(log) + 1),
                                               Append(log, host_addr), leader_map,
                                               Tail(walk), down)
                 ELSE connect_leaders(map, log, leader_map, Tail(walk), down)

\* ScanVertexRequest / ScanEdgeRequest as execute fills it in for one
\* partition.
ScanRequest(space_id, part_id, prop) ==
    [space_id |-> space_id,
     parts |-> (part_id :> [next_cursor |-> None]),
     return_columns |-> <<prop>>,
     limit |-> DEFAULT_LIMIT,
     start_time |-> Some(DEFAULT_START_TIME),
     end_time |-> Some(DEFAULT_END_TIME),
     filter |-> None,
     only_latest_version |-> FALSE,
     enable_read_from_follower |-> TRUE,
     common |-> None]

\* What a storage server answers for a partition: its rows, and a
\* continuation cursor when it holds more of the partition (those in `more`).
ScanResponse(part_id, more) ==
    [props |-> Some([column_names |-> <<K_VID>>,
                     rows |-> <<[values |-> <<iVal(part_id)>>]>>]),
     cursors |-> (part_id :> [next_cursor |-> IF part_id \in more THEN Some("next")
                                                              ELSE None])]

\* StorageQueryOutput::new: `resp.props.take()` wrapped as a DataSetWrapper.
StorageQueryOutput_new(resp) ==
    [resp |-> [resp EXCEPT !.props = None],
     data_set |-> IF IsSome(resp.props) THEN Some(DataSetWrapper_new(Unwrap(resp.props)))
                                        ELSE None]

\* An execute loop that, after the RPC of a partition has failed, still
\* sends those of the partitions left and returns the error at the end.
RECURSIVE execute_loopGoesOn(_, _, _, _, _, _, _, _)
execute_loopGoesOn(rpc, scan_output, map, walk, sfail, more, data_set, rpcs) ==
    IF walk = <<>> THEN [result |-> Ok(data_set), rpcs |-> rpcs]
    ELSE LET part_id == Head(walk)
             leader == scan_output.leader_map[part_id]
             sent == Append(rpcs, [rpc |-> rpc, conn |-> map[leader], addr |-> leader,
                                   req |-> ScanRequest(scan_output.space_id, part_id, scan_output.prop)])
         IN  IF ~contains_key(map, leader) THEN [result |-> Panic, rpcs |-> rpcs]
             ELSE IF part_id = sfail
                 THEN [result |-> Err(IF rpc = "scanVertex" THEN ScanVertexError(part_id)
                                                           ELSE ScanEdgeError(part_id)),
                       rpcs |-> execute_loopGoesOn(rpc, scan_output, map, Tail(walk), sfail,
                                                   more, data_set, sent).rpcs]
             ELSE execute_loopGoesOn(rpc, scan_output, map, Tail(walk), sfail, more,
                                     Append(data_set,
                                            StorageQueryOutput_new(ScanResponse(part_id, more))),
                                     sent)

\* The loop of StorageScanVertexOutput::execute and of
\* StorageScanEdgeOutput::execute over the rest of a walk: one RPC `rpc` per
\* partition on the connection of its leader; `?` returns at the partition
\* whose RPC fails (sfail).  Indexing the connection map with a leader it
\* does not hold panics.
RECURSIVE execute_loop(_, _, _, _, _, _, _, _)
execute_loop(rpc, scan_output, map, walk, sfail, more, data_set, rpcs) ==
    IF walk = <<>> THEN [result |-> Ok(data_set), rpcs |-> rpcs]
    ELSE LET part_id == Head(walk)
             leader == scan_output.leader_map[part_id]
             sent == Append(rpcs, [rpc |-> rpc, conn |-> map[leader], addr |-> leader,
                                   req |-> ScanRequest(scan_output.space_id, part_id, scan_output.prop)])
         IN  IF ~contains_key(map, leader) THEN [result |-> Panic, rpcs |-> rpcs]
             ELSE IF part_id = sfail
                 THEN [result |-> Err(IF rpc = "scanVertex" THEN ScanVertexError(part_id)
                                                           ELSE ScanEdgeError(part_id)),
                       rpcs |-> sent]
             ELSE execute_loop(rpc, scan_output, map, Tail(walk), sfail, more,
                               Append(data_set,
                                      StorageQueryOutput_new(ScanResponse(part_id, more))),
                               sent)

\* An execute that asks again, with the cursor returned, for a partition
\* that answered with a continuation cursor.
RECURSIVE execute_loopFollowsCursor(_, _, _, _, _, _, _)
execute_loopFollowsCursor(scan_output, map, walk, sfail, more, data_set, rpcs) ==
    IF walk = <<>> THEN [result |-> Ok(data_set), rpcs |-> rpcs]
    ELSE LET part_id == Head(walk)
             leader == scan_output.leader_map[part_id]
             first == [rpc |-> "scanVertex", conn |-> map[leader], addr |-> leader,
                       req |-> ScanRequest(scan_output.space_id, part_id,
                                           scan_output.prop)]
             again == [first EXCEPT !.req.parts[part_id].next_cursor = Some("next")]
             sent == IF part_id \in more THEN rpcs \o <<first, again>>
                                         ELSE Append(rpcs, first)
         IN  IF part_id = sfail
                 THEN [result |-> Err(ScanVertexError(part_id)), rpcs |-> Append(rpcs, first)]
                 ELSE execute_loopFollowsCursor(
                          scan_output, map, Tail(walk), sfail, more,
                          Append(data_set, StorageQueryOutput_new(ScanResponse(part_id, {}))),
                          sent)

StorageScanVertexOutput_executeFollowsCursor(scan_output, map, walk, sfail, more) ==
    execute_loopFollowsCursor(scan_output, map, walk, sfail, more, <<>>, <<>>)

StorageScanVertexOutput_execute(scan_output, map, walk, sfail, more) ==
    execute_loop("scanVertex", scan_output, map, walk, sfail, more, <<>>, <<>>)

StorageScanEdgeOutput_execute(scan_output, map, walk, sfail, more) ==
    execute_loop("scanEdge", scan_output, map, walk, sfail, more, <<>>, <<>>)

\* The leaders of a leader map.
Leaders(leader_map) == {leader_map[p] : p \in DOMAIN leader_map}

\* The inputs of a scan beyond its lookups `l`: order1 and order2 are the
\* orders in which the leader map and its clone are walked, `down` the
\* addresses that refuse a connection, sfail the partition whose RPC fails
\* (0: none), `more` the partitions that answer with a continuation cursor.
\* An input the scan does not consult has its canonical value.
PartOrders == {<<1, 2, 3>>, <<3, 1, 2>>}

MoreSamples == {{}, {1}, {1, 2, 3}}

ScanInput(order1, order2, down, sfail, more) ==
    [order1 |-> order1, order2 |-> order2, down |-> down, sfail |-> sfail, more |-> more]

ScanInputs(l, map) ==
    IF l.result.tag # "Ok" THEN {ScanInput(CanonicalOrder, CanonicalOrder, {}, 0, {})}
    ELSE LET parts == DOMAIN l.result.value.leader_map
             missing == Leaders(l.result.value.leader_map) \ DOMAIN map
         IN  {ScanInput(o1, CanonicalOrder, {d}, 0, {}) : o1 \in PartOrders, d \in missing}
             \cup {ScanInput(o1, o2, {}, f, {}) :
                       o1 \in PartOrders, o2 \in PartOrders, f \in parts}
             \cup {ScanInput(o1, o2, {}, 0, m \cap parts) :
                       o1 \in PartOrders, o2 \in PartOrders, m \in MoreSamples}

\* A scan from the result `l` of its lookups on: the connections, then the
\* RPCs the execute of `op` issues.  A client whose thread panicked is not called again.
StorageCall(op, args, in, l, x) ==
    /\ storage_last.result.tag # "Panic"
    /\ Len(conn_log) < MaxConns
    /\ l.loads = 0 => in = NoLoadInput
    /\ meta_cache' = l.cache
    /\ IF l.result.tag # "Ok"
           THEN /\ storage_last' = [op |-> op, args |-> args, leader_map |-> None,
                                    opened |-> <<>>, rpcs |-> <<>>, result |-> l.result]
                /\ UNCHANGED <<connection_map, conn_log>>
           ELSE LET scan_output == l.result.value
                    c == connect_leaders(connection_map, conn_log, scan_output.leader_map,
                                         walk_of(scan_output.leader_map, x.order1), x.down)
                    opened == SubSeq(c.log, Len(conn_log) + 1, Len(c.log))
                    walk == walk_of(scan_output.leader_map, x.order2)
                    e == IF op = "scan_vertex"
                             THEN StorageScanVertexOutput_execute(scan_output, c.map, walk,
                                                                  x.sfail, x.more)
                             ELSE StorageScanEdgeOutput_execute(scan_output, c.map, walk,
                                                                x.sfail, x.more)
                IN  /\ connection_map' = c.map
                    /\ conn_log' = c.log
                    /\ storage_last' =
                           [op |-> op, args |-> args,
                            leader_map |-> Some(scan_output.leader_map),
                            opened |-> opened,
                            rpcs |-> IF c.result.tag # "Ok" THEN <<>> ELSE e.rpcs,
                            result |-> IF c.result.tag # "Ok" THEN c.result
                                       ELSE IF e.result.tag = "Err"
                                           THEN Err(StorageClientError_StorageQueryError(
                                                        e.result.error))
                                       ELSE e.result]
    /\ UNCHANGED <<host_addrs, host_idx, threadVars, space, sessions, last, wireVars,
                   cloneVars, meta_last, dataVars>>

ScanVertex(space_name, tag_name, prop_names, in) ==
    \E l \in {scan_vertex_lookups(meta_cache, space_name, tag_name, prop_names, in)} :
        \E x \in ScanInputs(l, connection_map) :
            StorageCall("scan_vertex", <<space_name, tag_name, prop_names>>, in, l, x)

ScanEdge(space_name, edge_name, prop_names, in) ==
    \E l \in {scan_edge_lookups(meta_cache, space_name, edge_name, prop_names, in)} :
        \E x \in ScanInputs(l, connection_map) :
            StorageCall("scan_edge", <<space_name, edge_name, prop_names>>, in, l, x)

PropNameSamples == {None, Some(<<"name">>)}

InitStorage ==
    /\ ConfNew(<<HostAddress(1)>>)
    /\ space = None
    /\ sessions = <<>>
    /\ last = NoOp
    /\ ExtInit

NextStorage ==
    \/ \E sn \in SpaceNameSamples, tn \in TagNameSamples, pn \in PropNameSamples,
          in \in StorageLoadInputs : ScanVertex(sn, tn, pn, in)
    \/ \E sn \in SpaceNameSamples, en \in EdgeNameSamples, pn \in PropNameSamples,
          in \in StorageLoadInputs : ScanEdge(sn, en, pn, in)

SpecStorage == InitStorage /\ [][NextStorage]_vars

(***************************************************************************)
(* Claims about the storage scan.                                          *)
(***************************************************************************)
ScanOps == {"scan_vertex", "scan_edge"}

\* The scan RPCs of `rpcs` that name partition p.
RpcsOfPart(rpcs, p) == {k \in 1..Len(rpcs) : p \in DOMAIN rpcs[k].req.parts}

\* C21: a successful scan_vertex or scan_edge on a fresh storage client,
\* whose leader map has P partitions over L distinct leaders, opens exactly
\* L storage connections, one to each leader, issues exactly P scan RPCs,
\* one per partition, each on the connection of the partition's leader and
\* naming that partition alone, and returns a list of exactly P outputs.
C21_ScanFansOutPerPartition ==
    [][(/\ connection_map = EmptyMap
        /\ storage_last'.op \in ScanOps
        /\ storage_last'.result.tag = "Ok")
       => LET leader_map == Unwrap(storage_last'.leader_map)
              opened == storage_last'.opened
              rpcs == storage_last'.rpcs
          IN  /\ Len(opened) = Cardinality(Leaders(leader_map))
              /\ {opened[k] : k \in 1..Len(opened)} = Leaders(leader_map)
              /\ DOMAIN connection_map' = Leaders(leader_map)
              /\ Len(rpcs) = Cardinality(DOMAIN leader_map)
              /\ \A p \in DOMAIN leader_map :
                    /\ Cardinality(RpcsOfPart(rpcs, p)) = 1
                    /\ \A k \in RpcsOfPart(rpcs, p) :
                          /\ DOMAIN rpcs[k].req.parts = {p}
                          /\ rpcs[k].addr = leader_map[p]
                          /\ rpcs[k].conn = connection_map'[leader_map[p]]
                          /\ conn_log'[rpcs[k].conn] = leader_map[p]
              /\ Len(storage_last'.result.value) = Cardinality(DOMAIN leader_map)]_vars

\* C21: the scan of the example: a fresh client, {1->A, 2->B, 3->A}, two
\* connections, three RPCs, three outputs.
C21_Witness ==
    /\ storage_last.op = "scan_vertex"
    /\ storage_last.result.tag = "Ok"
    /\ storage_last.leader_map
           = Some((1 :> HostAddress(1)) @@ (2 :> HostAddress(2)) @@ (3 :> HostAddress(1)))
    /\ conn_log = storage_last.opened
    /\ Len(storage_last.opened) = 2
    /\ Len(storage_last.rpcs) = 3
    /\ Len(storage_last.result.value) = 3

\* C22: over any sequence of scan_vertex and scan_edge calls on one storage
\* client, a connection to a leader address is opened at most once: a scan
\* opens connections only to leaders the map does not hold, a scan that gets
\* as far as its RPCs holds a connection to every leader it references and
\* sends on the connection opened earlier where there was one, and no
\* connection ever leaves the map or is replaced.
C22_LeaderConnectedOnce ==
    [][LET opened == storage_last'.opened
       IN  /\ \A a \in DOMAIN connection_map :
                 a \in DOMAIN connection_map' /\ connection_map'[a] = connection_map[a]
           /\ \A i, j \in 1..Len(conn_log') : conn_log'[i] = conn_log'[j] => i = j
           /\ \A a \in DOMAIN connection_map' : conn_log'[connection_map'[a]] = a
           /\ storage_last'.op \in ScanOps =>
                 /\ conn_log' = conn_log \o opened
                 /\ \A k \in 1..Len(opened) : opened[k] \notin DOMAIN connection_map
                 /\ \A k \in 1..Len(storage_last'.rpcs) :
                       LET rpc == storage_last'.rpcs[k]
                       IN  /\ rpc.addr \in DOMAIN connection_map'
                           /\ rpc.conn = connection_map'[rpc.addr]
                           /\ rpc.addr \in DOMAIN connection_map
                                  => rpc.conn = connection_map[rpc.addr]
                 /\ (storage_last'.result.tag = "Ok"
                         \/ (storage_last'.result.tag = "Err"
                                 /\ storage_last'.result.error.kind = "StorageQueryError"))
                        => Leaders(Unwrap(storage_last'.leader_map))
                               \subseteq DOMAIN connection_map']_vars

\* C22: a second scan that reuses the connection the first scan opened to
\* one leader and opens one to a leader not referenced before.
C22_Witness ==
    /\ storage_last.op = "scan_edge"
    /\ storage_last.result.tag = "Ok"
    /\ conn_log = <<HostAddress(1), HostAddress(2)>>
    /\ storage_last.opened = <<HostAddress(2)>>
    /\ Len(storage_last.rpcs) = 3
    /\ \E k \in 1..Len(storage_last.rpcs) :
          storage_last.rpcs[k].addr = HostAddress(1) /\ storage_last.rpcs[k].conn = 1

\* C23: a scan is one-shot per partition: every scan RPC carries an empty
\* initial cursor and limit 1000, no partition is named by more than one
\* RPC of a scan, also when its response carries a continuation cursor, and
\* the k-th output of a successful scan is the response to its k-th RPC,
\* continuation cursor included.
C23_ScanIsOneShot ==
    storage_last.op \in ScanOps =>
        LET rpcs == storage_last.rpcs
        IN  /\ \A k \in 1..Len(rpcs) :
                  /\ rpcs[k].req.limit = 1000
                  /\ \A p \in DOMAIN rpcs[k].req.parts :
                        rpcs[k].req.parts[p].next_cursor = None
            /\ \A p \in 1..3 : Cardinality(RpcsOfPart(rpcs, p)) <= 1
            /\ storage_last.result.tag = "Ok" =>
                  /\ Len(storage_last.result.value) = Len(rpcs)
                  /\ \A k \in 1..Len(rpcs) :
                        LET output == storage_last.result.value[k]
                        IN  /\ DOMAIN output.resp.cursors = DOMAIN rpcs[k].req.parts
                            /\ IsSome(output.data_set)
                            /\ \A p \in DOMAIN rpcs[k].req.parts :
                                  Unwrap(output.data_set).dataset.rows
                                      = <<[values |-> <<iVal(p)>>]>>

\* C23: a successful scan of three partitions, one of which answered with a
\* continuation cursor, made three RPCs.
C23_Witness ==
    /\ storage_last.op = "scan_vertex"
    /\ storage_last.result.tag = "Ok"
    /\ Len(storage_last.rpcs) = 3
    /\ Len(storage_last.result.value) = 3
    /\ \E k \in 1..3 :
          /\ DOMAIN storage_last.result.value[k].resp.cursors = {1}
          /\ storage_last.result.value[k].resp.cursors[1].next_cursor = Some("next")
          /\ DOMAIN storage_last.rpcs[k].req.parts = {1}
    /\ \E k \in 1..3 :
          /\ DOMAIN storage_last.result.value[k].resp.cursors = {2}
          /\ storage_last.result.value[k].resp.cursors[2].next_cursor = None

(***************************************************************************)
(* Claims about DataSetWrapper and ValueWrapper.                           *)
(***************************************************************************)
\* The names of a column list.
NamesOf(column_names) == {column_names[k] : k \in 1..Len(column_names)}

\* C24: in every dataset wrapper the map holds, for every name of the
\* column list, an index that is valid in every row and is a column of that
\* name; get_values_by_col_name of such a name succeeds with exactly
\* get_row_size() values, the i-th being the value of row i at that index,
\* and of any other name fails with UnexistedColumnError(name).
C24_ColumnValuesByName ==
    LET D == DataSetWrapper_new(data_in)
        map == D.col_name_index_map
        rows == get_rows(D)
    IN  /\ \A c \in NamesOf(get_col_names(D)) :
              /\ c \in DOMAIN map
              /\ \A i \in 1..Len(rows) : map[c] \in 0..(Len(rows[i].values) - 1)
              /\ map[c] \in 0..(get_col_size(D) - 1)
              /\ get_col_names(D)[map[c] + 1] = c
        /\ data_last.op = "get_values_by_col_name" =>
              LET c == data_last.args[1]
                  r == data_last.result
              IN  IF c \in NamesOf(get_col_names(D))
                      THEN /\ r.tag = "Ok"
                           /\ Len(r.value) = get_row_size(D)
                           /\ \A i \in 1..Len(rows) :
                                 r.value[i] = ValueWrapper_new(rows[i].values[map[c] + 1])
                      ELSE /\ r.tag = "Err"
                           /\ r.error = UnexistedColumnError(c)

\* C24: the second column of a dataset with two rows, read by its name.
C24_Witness ==
    /\ data_last.op = "get_values_by_col_name"
    /\ data_last.args = <<"b">>
    /\ data_in.column_names = <<"a", "b">>
    /\ Len(data_in.rows) = 2
    /\ data_last.result.tag = "Ok"
    /\ Len(data_last.result.value) = 2
    /\ data_last.result.value[1] = ValueWrapper_new(iVal(2))
    /\ data_last.result.value[2] = ValueWrapper_new(iVal(12))

\* The position, counted from 1, of the last column named c.
LastColumn(column_names, c) ==
    CHOOSE k \in 1..Len(column_names) :
        column_names[k] = c /\ \A j \in (k + 1)..Len(column_names) : column_names[j] # c

Occurrences(column_names, c) == {k \in 1..Len(column_names) : column_names[k] = c}

\* C25: for a name that occurs more than once in the column list the map
\* holds the index of its last occurrence, and get_values_by_col_name and
\* Record::get_value_by_col_name of that name return the values of the last
\* column of that name.
C25_LastDuplicateColumnWins ==
    LET D == DataSetWrapper_new(data_in)
        names == get_col_names(D)
        rows == get_rows(D)
    IN  \A c \in NamesOf(names) :
            Cardinality(Occurrences(names, c)) > 1 =>
                /\ D.col_name_index_map[c] = LastColumn(names, c) - 1
                /\ (data_last.op = "get_values_by_col_name" /\ data_last.args = <<c>>) =>
                      /\ data_last.result.tag = "Ok"
                      /\ data_last.result.value
                             = [i \in 1..Len(rows) |->
                                    ValueWrapper_new(rows[i].values[LastColumn(names, c)])]
                /\ (data_last.op = "Record::get_value_by_col_name"
                        /\ data_last.args[2] = c) =>
                      /\ data_last.result.tag = "Ok"
                      /\ data_last.result.value
                             = ValueWrapper_new(rows[data_last.args[1] + 1]
                                                    .values[LastColumn(names, c)])

\* C25: the value of "a" in a Record of three columns named a, b, a is that
\* of the third column.
C25_Witness ==
    /\ data_in.column_names = <<"a", "b", "a">>
    /\ Len(data_in.rows) >= 1
    /\ data_in.rows[1] = [values |-> <<iVal(1), iVal(2), iVal(3)>>]
    /\ data_last.op = "Record::get_value_by_col_name"
    /\ data_last.args = <<0, "a">>
    /\ data_last.result = Ok(ValueWrapper_new(iVal(3)))

\* C26: is_empty() is true exactly when the dataset has no column; scan of
\* a dataset without columns returns the empty list, whatever rows it has,
\* and scan of a dataset with columns and without rows returns the empty
\* list.
C26_EmptyIsNoColumns ==
    /\ data_last.op = "is_empty" =>
          data_last.result = Ok(Len(data_in.column_names) = 0)
    /\ (data_last.op = "scan" /\ Len(data_in.column_names) = 0) =>
          data_last.result = Ok(<<>>)
    /\ (data_last.op = "scan" /\ Len(data_in.column_names) > 0 /\ Len(data_in.rows) = 0) =>
          data_last.result = Ok(<<>>)

\* C26: a dataset without columns and with two rows, scanned into a record
\* with a field.
C26_Witness ==
    /\ data_in.column_names = <<>>
    /\ Len(data_in.rows) = 2
    /\ data_last.op = "scan"
    /\ data_last.args = <<("b" :> "int")>>
    /\ data_last.result = Ok(<<>>)

\* C27: as_string_table() returns the empty outer list when, and only when,
\* the dataset has no column; otherwise it returns 1 + row_size rows, the
\* first being the column names in order and row i + 1 the rendered values
\* of dataset row i in order.  (Stated of the calls that return.)
C27_StringTableShape ==
    (data_last.op = "as_string_table" /\ data_last.result.tag = "Ok") =>
        LET table == data_last.result.value
            rows == data_in.rows
        IN  /\ (table = <<>>) <=> (Len(data_in.column_names) = 0)
            /\ Len(data_in.column_names) > 0 =>
                  /\ Len(table) = 1 + Len(rows)
                  /\ table[1] = data_in.column_names
                  /\ \A i \in 1..Len(rows) :
                        table[i + 1] = [k \in 1..Len(rows[i].values) |->
                                            to_string(ValueWrapper_new(rows[i].values[k])).value]

\* The payload of a value.
PayloadOf(v) ==
    CASE v.tag = "nVal" -> v.null
      [] v.tag = "bVal" -> v.bool
      [] v.tag = "iVal" -> v.int
      [] v.tag = "fVal" -> v.float
      [] v.tag = "sVal" -> v.bytes.text
      [] v.tag = "dVal" -> v.date
      [] v.tag = "tVal" -> v.time
      [] v.tag = "dtVal" -> v.datetime
      [] v.tag = "vVal" -> v.vertex
      [] v.tag = "eVal" -> v.edge
      [] v.tag = "pVal" -> v.path
      [] v.tag = "lVal" -> v.list
      [] v.tag = "mVal" -> v.map
      [] v.tag = "uVal" -> v.set
      [] v.tag = "ggVal" -> v.geography
      [] v.tag = "duVal" -> v.duration

\* C28: an accessor called on a value of its own variant returns the
\* payload, and on any other value returns a ConversionError whose from-type
\* is get_type of the value; no accessor aborts; exactly one of the 17 is_*
\* predicates holds of a value, the one get_type names.
C28_AccessorsNeverAbort ==
    value_last.op # "none" =>
        LET v == Unwrap(value_last.value)
            r == value_last.result
        IN  /\ r.tag # "Panic"
            /\ IF Accessors[value_last.op] = value_last.type
                   THEN r.tag = "Ok" /\ r.value = PayloadOf(v)
                   ELSE r.tag = "Err" /\ r.error.from_type = value_last.type
            /\ value_last.holds = {value_last.type}

(***************************************************************************)
(* C31.  After the single reload a lookup reports the most specific        *)
(* missing key.  A tag (edge) lookup whose space is still absent fails     *)
(* with SpaceNotFound(space) although a tag (edge) was asked for; with the *)
(* space present and the tag (edge) absent it fails with TagNotFound(tag)  *)
(* (EdgeNotFound(edge)).  get_part_leaders and get_space_id on an absent   *)
(* space fail with SpaceNotFound(space).                                   *)
(***************************************************************************)
C31_MostSpecificMissingKey ==
    [][(/\ MetaPerformed(TagOps \cup EdgeOps \cup {"get_part_leaders", "get_space_id"})
        /\ LoadSucceeded(meta_last')) =>
        LET m == meta_last'
            space_name == m.args[1]
            spaces == meta_cache'.space_caches
        IN  IF space_name \notin DOMAIN spaces
                THEN m.result = Err(SpaceNotFoundError(space_name))
            ELSE IF m.op \in TagOps /\ m.args[2] \notin DOMAIN spaces[space_name].tag_items
                THEN m.result = Err(TagNotFoundError(m.args[2]))
            ELSE IF m.op \in EdgeOps /\ m.args[2] \notin DOMAIN spaces[space_name].edge_items
                THEN m.result = Err(EdgeNotFoundError(m.args[2]))
            ELSE m.result.tag = "Ok"
    ]_vars

\* get_tag_id for a tag of a space the server does not list: one load_all,
\* which succeeds and caches another space, then SpaceNotFound.
C31_Witness ==
    /\ meta_last.op = "get_tag_id"
    /\ meta_last.args = <<"s2", "player">>
    /\ LoadSucceeded(meta_last)
    /\ meta_cache.space_caches # EmptyMap
    /\ "s2" \notin DOMAIN meta_cache.space_caches
    /\ meta_last.result = Err(SpaceNotFoundError("s2"))

\* The three tables keyed by space hold the same spaces.
TablesAgree(cache) ==
    /\ DOMAIN cache.space_caches = DOMAIN cache.storage_leader
    /\ DOMAIN cache.space_caches =
           {cache.space_id_names[id] : id \in DOMAIN cache.space_id_names}

(***************************************************************************)
(* C32.  In every state between two meta-client operations the four cache  *)
(* tables come from one completed load_all: space_caches, storage_leader   *)
(* and the values of space_id_names name the same spaces, and              *)
(* storage_addrs is None exactly as long as no load_all has completed      *)
(* (None at first, set by the first load_all that completes, never unset). *)
(***************************************************************************)
C32_TablesFromOneLoad ==
    /\ ~IsSome(meta_cache.storage_addrs)
    /\ [](TablesAgree(meta_cache))
    /\ [][IsSome(meta_cache'.storage_addrs) <=>
              (IsSome(meta_cache.storage_addrs) \/ LoadSucceeded(meta_last'))]_vars

\* A reload fails after a load_all that cached two spaces: the tables of
\* the earlier load are all still there.
C32_Witness ==
    /\ meta_last.loads = 1
    /\ meta_last.result.tag = "Err"
    /\ meta_last.result.error.kind = "LoadError"
    /\ IsSome(meta_cache.storage_addrs)
    /\ DOMAIN meta_cache.space_caches = {"s1", "s2"}
    /\ DOMAIN meta_cache.storage_leader = {"s1", "s2"}

\* The error a scan returned is of this kind.
ScanFailedWith(s, kind) == s.result.tag = "Err" /\ s.result.error.kind = kind

(***************************************************************************)
(* C33.  scan_vertex and scan_edge issue no scan RPC unless every meta     *)
(* lookup of the call succeeded and the connection map holds a connection  *)
(* for every leader of the leader map.  A meta failure returns             *)
(* MetaClientError with no storage connection opened; a failure to open a  *)
(* leader connection returns CreateTransportError before the first scan    *)
(* RPC; a scan never indexes the connection map with a leader it does not  *)
(* hold.                                                                   *)
(***************************************************************************)
C33_NoRpcBeforeLookupsAndConnections ==
    [][storage_last'.op \in ScanOps =>
        LET s == storage_last'
        IN  /\ s.rpcs # <<>> =>
                  /\ IsSome(s.leader_map)
                  /\ Leaders(Unwrap(s.leader_map)) \subseteq DOMAIN connection_map'
                  /\ \A k \in 1..Len(s.rpcs) : s.rpcs[k].addr \in DOMAIN connection_map'
            /\ ScanFailedWith(s, "MetaClientError") =>
                  /\ s.rpcs = <<>>
                  /\ s.opened = <<>>
                  /\ conn_log' = conn_log
                  /\ connection_map' = connection_map
            /\ ScanFailedWith(s, "CreateTransportError") =>
                  /\ s.rpcs = <<>>
                  /\ \E a \in Leaders(Unwrap(s.leader_map)) :
                        /\ a \notin DOMAIN connection_map'
                        /\ s.result.error = CreateTransportError(saddr_of(a))
            /\ IsSome(s.leader_map) => s.result.tag # "Panic"
    ]_vars

\* A scan over two leaders: the connection to the first is opened, the
\* second cannot be connected, and the scan returns CreateTransportError
\* having sent nothing.
C33_Witness ==
    /\ storage_last.op \in ScanOps
    /\ ScanFailedWith(storage_last, "CreateTransportError")
    /\ Len(storage_last.opened) = 1
    /\ storage_last.rpcs = <<>>
    /\ Cardinality(Leaders(Unwrap(storage_last.leader_map))) = 2

(***************************************************************************)
(* C34.  A scan is all-or-nothing for the caller.  When the scan RPC of a  *)
(* partition fails, scan_vertex returns ScanVertexError and scan_edge      *)
(* ScanEdgeError (as a StorageQueryError), the result carries none of the  *)
(* outputs collected from the partitions visited before, and the failed    *)
(* RPC is the last one of the call: no RPC is issued for the partitions    *)
(* not yet visited.  A scan that returns outputs returns one for every     *)
(* partition.                                                              *)
(***************************************************************************)
C34_ScanAllOrNothing ==
    storage_last.op \in ScanOps =>
        LET s == storage_last
            n == Len(s.rpcs)
        IN  /\ ScanFailedWith(s, "StorageQueryError") =>
                  /\ s.result.error.inner.kind
                         = (IF s.op = "scan_vertex" THEN "ScanVertexError" ELSE "ScanEdgeError")
                  /\ DOMAIN s.result = {"tag", "error"}
                  /\ n >= 1
                  /\ DOMAIN s.rpcs[n].req.parts = {s.result.error.inner.part}
                  /\ \A k \in 1..(n - 1) :
                        s.result.error.inner.part \notin DOMAIN s.rpcs[k].req.parts
                  /\ n <= Cardinality(DOMAIN Unwrap(s.leader_map))
            /\ s.result.tag = "Ok" =>
                  Len(s.result.value) = Cardinality(DOMAIN Unwrap(s.leader_map))
            /\ (s.result.tag = "Err" /\ s.result.error.kind # "StorageQueryError") =>
                  s.rpcs = <<>>

\* A scan over three partitions whose second RPC fails: one output had been
\* collected, one partition is never asked.
C34_Witness ==
    /\ storage_last.op = "scan_edge"
    /\ ScanFailedWith(storage_last, "StorageQueryError")
    /\ storage_last.result.error.inner.kind = "ScanEdgeError"
    /\ Len(storage_last.rpcs) = 2
    /\ Cardinality(DOMAIN Unwrap(storage_last.leader_map)) = 3

\* The values a successful scan `s` built its RPCs from are those the
\* cache snapshot `cache` holds for the space and the tag or edge scanned.
ReadFromSnapshot(cache, s) ==
    LET space_name == s.args[1]
        item_name == s.args[2]
        prop_names == s.args[3]
        prop == s.rpcs[1].req.return_columns[1]
    IN  /\ space_name \in DOMAIN cache.space_caches
        /\ space_name \in DOMAIN cache.storage_leader
        /\ \A k \in 1..Len(s.rpcs) :
              /\ s.rpcs[k].req.space_id = cache.space_caches[space_name].space_id
              /\ s.rpcs[k].req.return_columns = <<prop>>
        /\ Unwrap(s.leader_map) = cache.storage_leader[space_name]
        /\ IF s.op = "scan_vertex"
               THEN LET tag_items == cache.space_caches[space_name].tag_items
                    IN  /\ item_name \in DOMAIN tag_items
                        /\ prop.tag = tag_items[item_name].tag_id
                        /\ ~IsSome(prop_names) =>
                              prop.props = <<K_VID>> \o
                                  schema_col_names(tag_items[item_name].schema)
               ELSE LET edge_items == cache.space_caches[space_name].edge_items
                    IN  /\ item_name \in DOMAIN edge_items
                        /\ prop.type = edge_items[item_name].edge_type
                        /\ ~IsSome(prop_names) =>
                              prop.props = <<K_SRC, K_TYPE, K_RANK, K_DST>> \o
                                  schema_col_names(edge_items[item_name].schema)

(***************************************************************************)
(* C35.  Within one successful scan_vertex or scan_edge the space id, the  *)
(* tag id or edge type, the schema columns and the leader map the scan     *)
(* RPCs are built from are all read from the same meta-cache snapshot: the *)
(* one the call found or the one a load_all of the call left.              *)
(***************************************************************************)
C35_ScanReadsOneSnapshot ==
    [][(/\ storage_last'.op \in ScanOps
        /\ storage_last'.result.tag = "Ok"
        /\ storage_last'.rpcs # <<>>)
       => \E cache \in {meta_cache, meta_cache'} : ReadFromSnapshot(cache, storage_last')
    ]_vars

(***************************************************************************)
(* C36.  Under any interleaving of concurrent get_next_addr calls on one   *)
(* SingleConnSessionConf with a non-empty host list, the index used to     *)
(* read host_addrs is smaller than its length: no call panics on an        *)
(* out-of-range access and every call returns an element of the list.      *)
(***************************************************************************)
C36_IndexInRangeUnderConcurrency ==
    /\ \A t \in Threads : pc[t] # "panicked"
    /\ \A t \in Threads : pc[t] \in {"L97", "L98"} => host[t].idx < Len(host_addrs)
    /\ \A k \in 1..Len(returned) :
          /\ returned[k].idx < Len(host_addrs)
          /\ \E i \in 1..Len(host_addrs) : returned[k].addr = host_addrs[i]

GetSessionOps == {"get_session", "connect"}

\* The place of a host in the list (0-based, the hosts are distinct).
IndexOfHost(addr) == CHOOSE i \in 0..(Len(host_addrs) - 1) : host_addrs[i + 1] = addr

(***************************************************************************)
(* C37.  Every get_session call selects one host, the one at cursor mod    *)
(* |hosts|, connects to that host only and leaves the cursor one past it,  *)
(* whether the call returns a session or fails at the transport, at the    *)
(* login or at the USE statement; nothing else moves the cursor.  So the   *)
(* get_session that follows a get_session, failed or not, tries the next   *)
(* host of the list.                                                       *)
(***************************************************************************)
C37_GetSessionAdvancesCursorByOne ==
    [][IF Performed(GetSessionOps)
           THEN LET i == host_idx % Len(host_addrs)
                IN  /\ last'.addr = host_addrs[i + 1]
                    /\ host_idx' = i + 1
                    /\ last.op \in GetSessionOps =>
                          IndexOfHost(last'.addr)
                              = (IndexOfHost(last.addr) + 1) % Len(host_addrs)
           ELSE host_idx' = host_idx
    ]_vars

\* A get_session that fails at the USE statement after an earlier
\* get_session: it tried the second host and the cursor stands past it.
C37_Witness ==
    /\ last.op \in GetSessionOps
    /\ last.result.tag = "Err"
    /\ last.result.error.kind = "GraphQueryError"
    /\ last.addr = host_addrs[2]
    /\ host_idx = 2

\* The signout RPCs among `sent` that name the session id.
SignoutsOf(sent, session_id) ==
    {k \in 1..Len(sent) : sent[k] = [rpc |-> "signout", session_id |-> session_id]}

(***************************************************************************)
(* C38.  Every session id a successful authenticate inside get_session     *)
(* obtains is either returned to the caller inside a session or signed out *)
(* before get_session returns: when the USE statement fails, the session   *)
(* the server granted is not left authenticated without an owner.          *)
(***************************************************************************)
C38_GrantedSessionOwnedOrSignedOut ==
    [][(Performed(GetSessionOps) /\ UseReached(last'.input)) =>
        LET session_id == Unwrap(Unwrap(last'.input.auth).resp.session_id)
        IN  \/ /\ last'.result.tag = "Ok"
               /\ last'.result.value.session_id = session_id
               /\ Len(sessions') = Len(sessions) + 1
               /\ sessions'[Len(sessions')].obj.session_id = session_id
            \/ SignoutsOf(last'.rpcs, session_id) # {}
    ]_vars

(***************************************************************************)
(* Part 9.  The two implementations of GraphQuery side by side.            *)
(* SpecPolicy: a GraphSession and a SingleConnSession, both just created,  *)
(* are called with the same method and are given the same outcome of the   *)
(* execute RPC, call after call.  `last` keeps what was fed (input) and,   *)
(* for every call, what each session returned and the close_required of    *)
(* each afterwards (result).                                               *)
(***************************************************************************)
MaxPolicyCalls == 2

PolicyCall(op, o, graph, single, stmt) ==
    /\ Len(last.result) < MaxPolicyCalls
    /\ sessions' = <<[obj |-> graph.session, where |-> "owned"],
                     [obj |-> single.session, where |-> "owned"]>>
    /\ last' = [op |-> "policy", sid |-> 0,
                input |-> Append(last.input, [method |-> op, outcome |-> o]),
                result |-> Append(last.result,
                                  [graph |-> graph.result,
                                   single |-> single.result,
                                   close_required |->
                                       <<is_close_required(graph.session),
                                         is_close_required(single.session)>>]),
                rpcs |-> <<ExecuteRpc(sessions[1].obj, stmt),
                           ExecuteRpc(sessions[2].obj, stmt)>>,
                addr |-> NoHost]
    /\ UNCHANGED <<host_addrs, host_idx, threadVars, space, extVars>>

PolicyQuery(o) ==
    PolicyCall("query", o, query(sessions[1].obj, o), query(sessions[2].obj, o), "stmt")

PolicyExecute(o) ==
    PolicyCall("execute", o, execute(sessions[1].obj, o), execute(sessions[2].obj, o),
               "stmt")

PolicyShowHosts(o) ==
    PolicyCall("show_hosts", o, show_hosts(sessions[1].obj, o),
               show_hosts(sessions[2].obj, o), "SHOW HOSTS;")

PolicyShowSpaces(o) ==
    PolicyCall("show_spaces", o, show_spaces(sessions[1].obj, o),
               show_spaces(sessions[2].obj, o), "SHOW SPACES;")

InitPolicy ==
    /\ ConfNew(<<HostAddress(1)>>)
    /\ space = None
    /\ sessions = <<[obj |-> GraphSession_new(11), where |-> "owned"],
                    [obj |-> SingleConnSession_new(11), where |-> "owned"]>>
    /\ last = NoOp
    /\ ExtInit

NextPolicy ==
    \/ \E o \in ExecuteOutcomes : PolicyQuery(o)
    \/ \E o \in ExecuteOutcomes : PolicyExecute(o)
    \/ \E o \in ExecuteOutcomes : PolicyShowHosts(o)
    \/ \E o \in ExecuteOutcomes : PolicyShowSpaces(o)

SpecPolicy == InitPolicy /\ [][NextPolicy]_vars

\* The two results are of the same kind: both Ok with the same value, or
\* both the same GraphQueryError, which SingleConnSession may have wrapped
\* in SingleConnSessionError::GraphQueryError.
SameKindOfResult(graph, single) ==
    /\ graph.tag = single.tag
    /\ graph.tag = "Ok" => graph.value = single.value
    /\ graph.tag = "Err" =>
          LET e == IF single.error.kind = "GraphQueryError" THEN single.error.inner
                                                            ELSE single.error
          IN  e.kind = graph.error.kind /\ e = graph.error

(***************************************************************************)
(* C39.  The standalone GraphSession and the manager-backed                *)
(* SingleConnSession implement the same response policy: fed the same      *)
(* sequence of execute outcomes (SUCCEEDED, each error code, BrokenPipe,   *)
(* another transport error) both return the same kind of result for every  *)
(* call and have the same close_required after every call.                 *)
(***************************************************************************)
C39_SessionsShareResponsePolicy ==
    /\ is_close_required(sessions[1].obj) = is_close_required(sessions[2].obj)
    /\ \A k \in 1..Len(last.result) :
          /\ SameKindOfResult(last.result[k].graph, last.result[k].single)
          /\ last.result[k].close_required[1] = last.result[k].close_required[2]

\* A broken pipe, then a call answered SUCCEEDED: both sessions returned an
\* error, then a value, and both require closing.
C39_Witness ==
    /\ Len(last.result) = 2
    /\ ~last.input[1].outcome.ok
    /\ IsBrokenPipe(last.input[1].outcome.err)
    /\ last.result[1].single.tag = "Err"
    /\ last.result[1].close_required = <<TRUE, TRUE>>
    /\ last.result[2].graph.tag = "Ok"
    /\ last.result[2].single.tag = "Ok"
    /\ last.result[2].close_required = <<TRUE, TRUE>>
    /\ sessions[2].obj.kind = "SingleConnSession"

(***************************************************************************)
(* C40.  For a Record with n values get_value_by_index(j) returns the j-th *)
(* value for every j < n and InvalidIndexError(j, n) for every j >= n,     *)
(* j = n included: it never aborts on an index out of range.               *)
(***************************************************************************)
C40_RecordIndexChecked ==
    data_last.op = "Record::get_value_by_index" =>
        LET values == data_in.rows[data_last.args[1] + 1].values
            j == data_last.args[2]
            n == Len(values)
        IN  /\ data_last.result.tag # "Panic"
            /\ j < n => data_last.result = Ok(ValueWrapper_new(values[j + 1]))
            /\ j >= n => data_last.result = Err(InvalidIndexError(j, n))

=============================================================================
